---- MODULE Spec2Model ----
(***************************************************************************)
(* Model of the front-panel menu layer of the constant-power heater        *)
(* controller (src/main/menu.cpp): the display cache (watts_buffer,        *)
(* vlim_buffer, have_to_clear), the repaint mutex, the task notification   *)
(* of the repaint task, the public producer API (set_values, repaint,      *)
(* print_str, print_message, print_message_f) called from the main task,   *)
(* and repaint_task_body.  Every driver call (my_lcd::clear / gotoxy /     *)
(* puts) is one step, so that the two tasks interleave on the display bus  *)
(* exactly where the scheduler can interleave them.                        *)
(*                                                                         *)
(* Texts are sequences of character codes.  A float is a record: NaN, an   *)
(* infinity, or a finite value counted in units of 1/10000.                *)
(*                                                                         *)
(* Spec is the menu layer alone.  ObservedSpec is the same steps with      *)
(* three observers of what the menu layer discards or only reports: the    *)
(* results of its driver calls, its warnings, and whether a message is     *)
(* still on the screen.                                                    *)
(*                                                                         *)
(* The display driver (src/components/my_lcd/my_lcd.cpp) is modelled by    *)
(* what each function puts on the bus: its GPIO and sink writes and its    *)
(* delays, in order, for the 8-bit and the 4-bit build.  DriverSpec calls  *)
(* the driver with every write succeeding and follows an HD44780           *)
(* controller at the other end of the bus; FaultSpec makes one write of a  *)
(* call fail.  GlyphSpec is a cursor move followed by upload_character;    *)
(* BacklightSpec is switch_backlight, its write succeeding or failing,     *)
(* among clear, gotoxy and puts on descriptors with and without a          *)
(* backlight line.                                                         *)
(*                                                                         *)
(* ValuesSpec is set_values called again and again by app_main alone, over *)
(* the values app_main can pass.  CycleSpec is the menu layer with an      *)
(* observer of the results of the redraw's driver calls.  ScreenSpec is     *)
(* set_values, repaint and the repaint task with an observer of what the   *)
(* driver calls leave on the screen.                                       *)
(*                                                                         *)
(* DacSpec is my_dac (src/main/my_dac.cpp): set_vpwr and set_vlim called   *)
(* in any order on the shared 32-bit image of the DAC shift register.      *)
(* AppSpec is the main loop of app_main (src/main/main.cpp) after a good   *)
(* or a failed start-up, one step per iteration, with a Modbus master      *)
(* writing the remote-enable coil and the console queueing override_errors *)
(* between iterations.                                                     *)
(***************************************************************************)
EXTENDS Integers, Sequences, FiniteSets, TLC

\* ------------------------------------------------------------------ bounds

\* How many entries of InputTable the producer draws its arguments from.
NumInputs == 2

\* The notification value of the repaint task saturates here (the code only
\* distinguishes 0, 1 and "more than 1").
MaxNotify == 2

\* How many split points of an unlocked (racing) buffer write are modelled.
MaxSplit == 1

\* Line counts 0..MaxLines are put in descriptors (valid ones are 1 to 4).
MaxLines == 5

\* How many driver calls in a row are followed on the controller.
MaxCalls == 2

\* The steps of one driver call that are made to fail: each of the first
\* MaxFailAt in turn (init takes at most 148 steps).
MaxFailAt == 148

\* ------------------------------------------------------- program constants

MY_DISPLAY_WIDTH == 8
MY_DISPLAY_HEIGHT == 2
MY_MENU_COLUMN_OFFSET == MY_DISPLAY_WIDTH - 2
pdTRUE == 1
pdFALSE == 0

\* Character codes of the text the menu layer sends.
ChDash == 45
ChDot == 46
ChZero == 48

\* const char txt_units[] = "W", txt_units_vlim[] = "V"
txt_units == <<87>>
txt_units_vlim == <<86>>

\* const char blank[] = "-----"
blank == <<ChDash, ChDash, ChDash, ChDash, ChDash>>

\* R(wch): LCD ROM code of a Cyrillic wide character, as an unsigned byte.
MY_ALPHABET_ROM_OFFSET == 192
R(wch) == (wch - 1040 + MY_ALPHABET_ROM_OFFSET) % 256

\* boot_initializing: "Инициализация..." through R(), then three dots.
boot_initializing ==
    << R(1048), R(1085), R(1080), R(1094), R(1080), R(1072), R(1083), R(1080),
       R(1079), R(1072), R(1094), R(1080), R(1103), ChDot, ChDot, ChDot >>

\* txt_messages[localized_messages::initializing]
txt_messages == << boot_initializing >>

\* ------------------------------------------------------------------ floats

NaN == [k |-> "nan", v |-> 0]
PosInf == [k |-> "inf", v |-> 1]
NegInf == [k |-> "inf", v |-> -1]
Fin(n) == [k |-> "fin", v |-> n]

\* isfinite()
isfinite(f) == f.k = "fin"

\* The C comparison a != b on floats: NaN differs from everything, itself
\* included.
FloatNe(a, b) == a.k = "nan" \/ b.k = "nan" \/ a # b

\* Argument pairs (watts, vlim) of set_values: (NaN, 5.0), (1.234, NaN),
\* (1.234, 5.0), (+inf, 5.0), (1.2341, 5.0), (12.5, 12.5).
InputTable ==
    << <<NaN, Fin(50000)>>, <<Fin(12340), NaN>>, <<Fin(12340), Fin(50000)>>,
       <<PosInf, Fin(50000)>>, <<Fin(12341), Fin(50000)>>, <<Fin(125000), Fin(125000)>> >>

Inputs == { InputTable[i] : i \in 1..NumInputs }

\* Values app_main passes as watts: NaN while the output is off, else a
\* power between 0 and MY_PWR_MAX (3.0 W); an infinity for completeness.
\* 0, 1.234, 1.2341, 1.2345, 2.9996, 3.0.
WattsValues ==
    {NaN, PosInf, NegInf, Fin(0), Fin(12340), Fin(12341), Fin(12345), Fin(29996), Fin(30000)}

\* Values app_main passes as vlim: between MY_VLIM_MIN (1.3 V) and
\* MY_VLIM_MAX (5.5 V), or what Modbus or the saved parameters hold when
\* that is no number.  1.3, 5.0, 5.04, 5.05, 5.5.
VlimValues ==
    {NaN, PosInf, NegInf, Fin(13000), Fin(50000), Fin(50400), Fin(50500), Fin(55000)}

\* ------------------------------------------------------------- formatting

Abs(n) == IF n < 0 THEN -n ELSE n

\* n / d rounded to the nearest integer (n >= 0).
RoundDiv(n, d) == (2 * n + d) \div (2 * d)

RECURSIVE Digits(_)
\* Decimal digits of n >= 0, most significant first.
Digits(n) == IF n < 10 THEN <<ChZero + n>> ELSE Append(Digits(n \div 10), ChZero + (n % 10))

RECURSIVE PadDigits(_, _)
\* Exactly w decimal digits of n, zero padded on the left.
PadDigits(n, w) == IF w = 0 THEN <<>> ELSE Append(PadDigits(n \div 10, w - 1), ChZero + (n % 10))

Pow10(p) == IF p = 1 THEN 10 ELSE 1000

\* printf "%1.<p>f" of a finite float f, p in {1, 3}.
FormatF(f, p) ==
    LET scaled == RoundDiv(Abs(f.v), 10000 \div Pow10(p))
        body == Digits(scaled \div Pow10(p)) \o <<ChDot>> \o PadDigits(scaled % Pow10(p), p)
    IN  IF f.v < 0 THEN <<ChDash>> \o body ELSE body

\* What snprintf(buf, size, ...) / strncpy(buf, s, size) leave in buf as a
\* C string when s is the full text: at most size - 1 characters.
Truncate(s, size) == IF Len(s) > size - 1 THEN SubSeq(s, 1, size - 1) ELSE s

\* ARRAY_SIZE(watts_buffer) == ARRAY_SIZE(vlim_buffer)
BufferSize == MY_MENU_COLUMN_OFFSET + 1

\* Mutant of WattsText: the value is formatted without asking isfinite.
WattsText_AlwaysFormats(watts) == Truncate(FormatF(watts, 3), BufferSize)

\* Text set_values puts in watts_buffer for argument watts.
WattsText(watts) ==
    IF isfinite(watts) THEN Truncate(FormatF(watts, 3), BufferSize)
    ELSE Truncate(blank, BufferSize)

\* Text set_values puts in vlim_buffer for argument vlim.
VlimText(vlim) ==
    IF isfinite(vlim) THEN Truncate(FormatF(vlim, 1), BufferSize)
    ELSE Truncate(blank, BufferSize)

\* How far into the new text an unlocked write can have got when another
\* task reads the buffer: split points 1..MaxSplit are modelled (0 and "all
\* of it" are the states before and after the write).
SplitPoints(new) == { k \in 1..MaxSplit : k < Len(new) }

\* The buffer as another task can read it while new is being written over
\* old without the lock: the first k characters of new, then what is left
\* of old (a data race; each split point is a possible outcome).
PartialWrites(old, new) ==
    IF SplitPoints(new) = {} THEN {new}
    ELSE { SubSeq(new, 1, k) \o (IF Len(old) > k THEN SubSeq(old, k + 1, Len(old)) ELSE <<>>) :
             k \in SplitPoints(new) }

\* ------------------------------------------------------------------- state

VARIABLES
    repaint_mutex,    \* holder of menu::repaint_mutex: "none", "main" or "repaint"
    notify_val,       \* notification value of the repaint task (xTaskNotifyGive counts up)
    have_to_clear,    \* menu::have_to_clear
    watts_buffer,     \* menu::watts_buffer as a C string
    vlim_buffer,      \* menu::vlim_buffer as a C string
    prev_w,           \* static float prev_w of set_values
    prev_vlim,        \* static float prev_vlim of set_values
    ppc,              \* main task: where it is inside the menu API ("idle": outside)
    op,               \* main task: the public operation it is executing
    watts,            \* main task: argument watts of the running set_values
    vlim,             \* main task: argument vlim of the running set_values
    p_xResult,        \* main task: xResult of ACQUIRE_REPAINT_MUTEX()
    need_repaint,     \* main task: need_repaint of the running set_values
    rpc,              \* repaint task: where it is in repaint_task_body
    xResult,          \* repaint task: its static xResult
    drv,              \* the last driver call that reached the display, and its caller
    cyc,              \* driver calls of the repaint task's current (or last) redraw
    req_after_stage,  \* history: repaint() was called after the last buffer write
    sv_done,          \* history: some set_values call has completed
    restore_due,      \* observer: a message was written and no redraw has cleared since
    bus_failed,       \* observer: a driver call of the menu layer returned a failure
    warnings,         \* observer: parity of the number of ESP_LOGW entries of the menu layer
    last_args,        \* observer: the arguments of the last set_values call that returned
    cycle_failed,     \* observer: a driver call of the current (or last) redraw returned a failure
    screen,           \* observer: the cursor and the characters visible on the 8x2 display
    lcd,              \* driver: the descriptor (hd44780_t) the driver is called with
    MY_LCD_8_BIT,     \* driver: TRUE when the driver is built for the 8-bit bus
    ctl,              \* driver: the display controller at the other end of the bus
    bus,              \* driver: writes and delays of the last driver call, in order
    ret,              \* driver: what the last driver call returned
    dcall,            \* driver: the last driver call
    ncalls,           \* driver: how many driver calls were made
    calibration,      \* my_dac: the calibration and the soft sentinel my_params hands out
    last_code,        \* my_dac: last_code, the image of the DAC shift register
    last_vpwr,        \* my_dac: last_vpwr
    last_vlim,        \* my_dac: last_vlim
    dac_call,         \* observer: the last call of set_vpwr / set_vlim and its argument
    init_ok,          \* app_main: static bool init_ok
    is_on,            \* app_main: static bool is_on
    btn_counter,      \* app_main: static uint32_t btn_counter
    pwr_to_set,       \* app_main: static float pwr_to_set
    vlim_to_set,      \* app_main: static float vlim_to_set
    coil_0,           \* modbus: coil_reg_params.coil_0 > 0, the remote-enable coil
    output_enable,    \* my_hal: the DAC outputs are enabled (pin_oe low)
    dbg_queue,        \* app_main: the commands waiting in dbg_queue
    held_on           \* observer: for how many iterations in a row, the last one included, the
                      \* button has read pressed with the output on (on since the iteration before)

cache == <<have_to_clear, watts_buffer, vlim_buffer>>
statics == <<prev_w, prev_vlim>>
main_locals == <<op, watts, vlim, p_xResult, need_repaint>>
main_task == <<ppc, op, watts, vlim, p_xResult, need_repaint>>
repaint_task == <<rpc, xResult>>
history == <<req_after_stage, sv_done>>
observers == <<restore_due, bus_failed, warnings, last_args, cycle_failed, screen>>
driver_vars == <<lcd, MY_LCD_8_BIT, ctl, bus, ret, dcall, ncalls>>
dac_vars == <<calibration, last_code, last_vpwr, last_vlim, dac_call>>
loop_vars == <<init_ok, is_on, btn_counter, pwr_to_set, vlim_to_set, coil_0, output_enable,
               dbg_queue, held_on>>
app_vars == <<calibration, last_code, last_vpwr, last_vlim, dac_call,
              init_ok, is_on, btn_counter, pwr_to_set, vlim_to_set, coil_0, output_enable,
              dbg_queue, held_on>>
menu_vars == <<repaint_mutex, notify_val, have_to_clear, watts_buffer, vlim_buffer,
               prev_w, prev_vlim, ppc, op, watts, vlim, p_xResult, need_repaint,
               rpc, xResult, drv, cyc, req_after_stage, sv_done>>

vars == <<repaint_mutex, notify_val, have_to_clear, watts_buffer, vlim_buffer,
          prev_w, prev_vlim, ppc, op, watts, vlim, p_xResult, need_repaint,
          rpc, xResult, drv, cyc, req_after_stage, sv_done,
          restore_due, bus_failed, warnings, last_args, cycle_failed, screen,
          lcd, MY_LCD_8_BIT, ctl, bus, ret, dcall, ncalls,
          calibration, last_code, last_vpwr, last_vlim, dac_call,
          init_ok, is_on, btn_counter, pwr_to_set, vlim_to_set, coil_0, output_enable,
          dbg_queue, held_on>>

\* ------------------------------------------------------------ driver calls

Clear == [fn |-> "clear", x |-> 0, y |-> 0, s |-> <<>>]
GotoXY(col, line) == [fn |-> "gotoxy", x |-> col, y |-> line, s |-> <<>>]
Puts(text) == [fn |-> "puts", x |-> 0, y |-> 0, s |-> text]

\* A driver call by task issuing `call` reaches the display.
Drive(task, call) == drv' = [by |-> task, call |-> call]

\* --------------------------------------------------- display driver: data

\* esp_err_t values the driver returns.
ESP_OK == "ESP_OK"
ESP_FAIL == "ESP_FAIL"
ESP_ERR_INVALID_ARG == "ESP_ERR_INVALID_ARG"
ESP_ERR_NOT_SUPPORTED == "ESP_ERR_NOT_SUPPORTED"

\* lcd->pins.bl of a descriptor without a backlight line
HD44780_NOT_USED == 255

CMD_CLEAR == 1
CMD_ENTRY_MODE == 4
CMD_DISPLAY_CTRL == 8
CMD_SHIFT == 16
CMD_FUNC_SET == 32
CMD_CGRAM_ADDR == 64
CMD_DDRAM_ADDR == 128

ARG_EM_INCREMENT == 2
ARG_DC_DISPLAY_ON == 4
ARG_DC_CURSOR_ON == 2
ARG_DC_CURSOR_BLINK == 1
ARG_FS_8_BIT == 16
ARG_FS_2_LINES == 8
ARG_FS_FONT_5X10 == 4
ARG_FS_4_LINES == 16

HD44780_FONT_5X8 == 0
HD44780_FONT_5X10 == 1
AN6866_PAGE_0 == 0
AN6866_PAGE_1 == 2

line_addr == <<0, 64, 20, 84>>

\* Bit i of the byte b: (b >> i) & 1
Bit(b, i) == (b \div (2 ^ i)) % 2

\* a | b on bytes
RECURSIVE OrBits(_, _, _)
OrBits(a, b, i) ==
    IF i > 7 THEN 0
    ELSE (IF Bit(a, i) = 1 \/ Bit(b, i) = 1 THEN 2 ^ i ELSE 0) + OrBits(a, b, i + 1)

Or(a, b) == OrBits(a, b, 0)

\* The value converted to uint8_t
U8(n) == n % 256

\* The register bit each line has in the image a 4-bit byte sink is given
\* (lcd->pins of a descriptor with write_cb, the usual I2C expander wiring).
\* The backlight line is the field bl of the descriptor: pins.bl, or
\* HD44780_NOT_USED.
pins == [rs |-> 0, e |-> 2, bl |-> 3, d4 |-> 4, d5 |-> 5, d6 |-> 6, d7 |-> 7]

\* ------------------------------------------------ display driver: programs
\*
\* What a driver function does is written as the sequence of its bus
\* writes and delays.  A write made under CHECK() ends the function with the
\* error when it fails (skip = -1); a write whose result is discarded lets
\* the function go on (skip = 0); a write inside a call whose result is
\* discarded ends that call only (skip = what is left of that call).

Checked(k, pin, v) == [k |-> k, pin |-> pin, v |-> v, skip |-> -1]
Discarded(k, pin, v) == [k |-> k, pin |-> pin, v |-> v, skip |-> 0]
Delay(class) == [k |-> "delay", pin |-> class, v |-> 0, skip |-> 0]

init_delay == <<Delay("init")>>
short_delay == <<Delay("short")>>
long_delay == <<Delay("long")>>
toggle_delay == <<Delay("toggle")>>
setup_delay == <<Delay("setup")>>

\* A call whose esp_err_t is discarded: a failing CHECK inside it leaves
\* the call, and the caller goes on with its next statement.
IgnoreResult(prog) ==
    [i \in 1..Len(prog) |->
        IF prog[i].skip = -1 THEN [prog[i] EXCEPT !.skip = Len(prog) - i] ELSE prog[i]]

\* Mutant of BacklightBit: the image always has the backlight bit set.
BacklightBit_AlwaysOn(d) == 2 ^ pins.bl

\* (lcd->backlight ? 1 << lcd->pins.bl : 0) in the uint8_t image.  With
\* pins.bl == HD44780_NOT_USED the shift count is 255: whatever the shift
\* yields lies above bit 7 and the image gets no backlight bit.
BacklightBit(d) ==
    IF d.backlight /\ d.bl # HD44780_NOT_USED THEN 2 ^ d.bl ELSE 0

\* write_nibble (4-bit build): the low four bits of b.
write_nibble(d, b, rs) ==
    IF d.write_cb
    THEN LET data == Bit(b, 3) * 2 ^ pins.d7 + Bit(b, 2) * 2 ^ pins.d6
                     + Bit(b, 1) * 2 ^ pins.d5 + Bit(b, 0) * 2 ^ pins.d4
                     + (IF rs THEN 2 ^ pins.rs ELSE 0)
                     + BacklightBit(d)
         IN  <<Checked("sink", "cb", Or(data, 2 ^ pins.e))>> \o toggle_delay
               \o <<Checked("sink", "cb", data)>>
    ELSE <<Checked("gpio", "rs", IF rs THEN 1 ELSE 0)>> \o setup_delay
           \o <<Checked("gpio", "e", 1),
                Checked("gpio", "d7", Bit(b, 3)), Checked("gpio", "d6", Bit(b, 2)),
                Checked("gpio", "d5", Bit(b, 1)), Checked("gpio", "d4", Bit(b, 0))>>
           \o toggle_delay \o <<Checked("gpio", "e", 0)>>

\* write_byte: in the 8-bit build RS and E are raised with their results
\* discarded, the byte goes to the sink (result discarded) or to the eight
\* data pins (checked), and E is lowered (checked); in the 4-bit build the
\* byte is two checked nibbles, high first.
write_byte(d, wide, b, rs) ==
    IF wide
    THEN <<Discarded("gpio", "rs", IF rs THEN 1 ELSE 0)>> \o setup_delay
           \o <<Discarded("gpio", "e", 1)>>
           \o (IF d.write_cb
               THEN <<Discarded("sink", "cb", b)>>
               ELSE <<Checked("gpio", "d7", Bit(b, 7)), Checked("gpio", "d6", Bit(b, 6)),
                      Checked("gpio", "d5", Bit(b, 5)), Checked("gpio", "d4", Bit(b, 4)),
                      Checked("gpio", "d3", Bit(b, 3)), Checked("gpio", "d2", Bit(b, 2)),
                      Checked("gpio", "d1", Bit(b, 1)), Checked("gpio", "d0", Bit(b, 0))>>)
           \o toggle_delay \o <<Checked("gpio", "e", 0)>>
    ELSE write_nibble(d, b \div 16, rs) \o write_nibble(d, b, rs)

\* The byte set_function sends.
FunctionSetByte(d, ch_page) ==
    Or(Or(Or(Or(CMD_FUNC_SET,
                IF d.lines > 1 THEN ARG_FS_2_LINES ELSE 0),
             IF d.lines > 2 THEN ARG_FS_4_LINES ELSE 0),
          IF d.font = HD44780_FONT_5X10 THEN ARG_FS_FONT_5X10 ELSE 0),
       ch_page)

set_function(d, wide, ch_page) ==
    write_byte(d, wide, FunctionSetByte(d, ch_page), FALSE) \o short_delay

\* The byte control sends.
ControlByte(on, cursor, cursor_blink) ==
    Or(Or(Or(CMD_DISPLAY_CTRL,
             IF on THEN ARG_DC_DISPLAY_ON ELSE 0),
          IF cursor THEN ARG_DC_CURSOR_ON ELSE 0),
       IF cursor_blink THEN ARG_DC_CURSOR_BLINK ELSE 0)

control(d, wide, on, cursor, cursor_blink) ==
    write_byte(d, wide, ControlByte(on, cursor, cursor_blink), FALSE) \o short_delay

\* Mutant of clear: the command is followed by the short delay only.
clear_ShortDelay(d, wide) == write_byte(d, wide, CMD_CLEAR, FALSE) \o short_delay

clear(d, wide) == write_byte(d, wide, CMD_CLEAR, FALSE) \o long_delay

\* Mutant of GotoxyArgsOk: the line is checked against the address table
\* only, not against the descriptor's line count.
GotoxyArgsOk_TableOnly(d, line) == line < Len(line_addr)

\* CHECK_ARG of gotoxy: line < lcd->lines && line < sizeof(line_addr)
GotoxyArgsOk(d, line) == line < d.lines /\ line < Len(line_addr)

\* The byte gotoxy sends: CMD_DDRAM_ADDR + line_addr[line] + col as uint8_t.
GotoxyByte(col, line) == U8(CMD_DDRAM_ADDR + line_addr[line + 1] + col)

gotoxy(d, wide, col, line) ==
    write_byte(d, wide, GotoxyByte(col, line), FALSE) \o short_delay

putc(d, wide, c, cp_offset) == write_byte(d, wide, U8(c + cp_offset), TRUE) \o short_delay

RECURSIVE puts(_, _, _, _)
puts(d, wide, s, cp_offset) ==
    IF s = <<>> THEN <<>>
    ELSE putc(d, wide, Head(s), cp_offset) \o puts(d, wide, Tail(s), cp_offset)

\* Mutant of InitArgsOk: the upper limit of the line count is not checked.
InitArgsOk_NoUpperLimit(d) == d.lines > 0

\* CHECK_ARG of init: lcd->lines > 0 && lcd->lines < 5
InitArgsOk(d) == d.lines > 0 /\ d.lines < 5

\* The three function-set(8-bit) writes that start init, and in the 4-bit
\* build the nibble that switches the width.  In the 8-bit build the
\* result of write_byte is discarded.
WarmUpWrite(d, wide) ==
    IF wide
    THEN IgnoreResult(write_byte(d, wide, Or(ARG_FS_8_BIT, CMD_FUNC_SET), FALSE))
    ELSE write_nibble(d, Or(CMD_FUNC_SET, ARG_FS_8_BIT) \div 16, FALSE)

WarmUp(d, wide) ==
    WarmUpWrite(d, wide) \o init_delay \o WarmUpWrite(d, wide) \o init_delay
      \o WarmUpWrite(d, wide) \o init_delay
      \o (IF wide THEN <<>> ELSE write_nibble(d, CMD_FUNC_SET \div 16, FALSE))

\* gpio_config of a descriptor without write_cb: RS, E, D4..D7 (and the
\* backlight line when there is one) become outputs.
ConfigurePins(d) ==
    IF d.write_cb THEN <<>> ELSE <<Checked("config", "gpio", 0)>>

\* Mutant of init: the display is cleared before it is switched off.
init_ClearBeforeOff(d, wide, page) ==
    ConfigurePins(d)
      \o WarmUp(d, wide) \o short_delay
      \o set_function(d, wide, page)
      \o clear(d, wide)
      \o control(d, wide, FALSE, FALSE, FALSE)
      \o write_byte(d, wide, Or(CMD_ENTRY_MODE, ARG_EM_INCREMENT), FALSE) \o short_delay
      \o control(d, wide, TRUE, FALSE, FALSE)

init(d, wide, page) ==
    ConfigurePins(d)
      \o WarmUp(d, wide) \o short_delay
      \o set_function(d, wide, page)
      \o control(d, wide, FALSE, FALSE, FALSE)
      \o clear(d, wide)
      \o write_byte(d, wide, Or(CMD_ENTRY_MODE, ARG_EM_INCREMENT), FALSE) \o short_delay
      \o control(d, wide, TRUE, FALSE, FALSE)

\* CHECK_ARG of upload_character: num < 8
UploadArgsOk(num) == num < 8

\* Mutant of GlyphBytes: every glyph is taken to have 8 rows.
GlyphBytes_Always8(d) == 8

\* uint8_t bytes = lcd->font == HD44780_FONT_5X8 ? 8 : 10;
GlyphBytes(d) == IF d.font = HD44780_FONT_5X8 THEN 8 ELSE 10

\* The byte that starts upload_character: CMD_CGRAM_ADDR + num * bytes as
\* uint8_t.
UploadAddressByte(d, num) == U8(CMD_CGRAM_ADDR + num * GlyphBytes(d))

\* for (i = 0; i < bytes; i++) { write_byte(data[i], true); short_delay(); }
RECURSIVE GlyphRows(_, _, _, _)
GlyphRows(d, wide, data, i) ==
    IF i >= GlyphBytes(d) THEN <<>>
    ELSE write_byte(d, wide, data[i + 1], TRUE) \o short_delay \o GlyphRows(d, wide, data, i + 1)

\* upload_character up to its closing gotoxy(lcd, 0, 0).
UploadGlyph(d, wide, num, data) ==
    write_byte(d, wide, UploadAddressByte(d, num), FALSE) \o short_delay
      \o GlyphRows(d, wide, data, 0)

\* ------------------------------------------- display driver: execution

IsWrite(st) == st.k # "delay"

\* A step as it is seen on the bus: ok tells whether the write succeeded.
Event(st, ok) == [k |-> st.k, pin |-> st.pin, v |-> st.v, ok |-> ok]

\* The function prog is run and its step number fail_at, when that is a
\* write, fails (every other write succeeds): what reaches the bus, in
\* order, and what the function returns.  A failing write under CHECK ends
\* the function; a failing write whose result is discarded is followed by
\* the steps after those it makes the function skip.
Exec(prog, fail_at) ==
    IF fail_at \notin 1..Len(prog) \/ ~IsWrite(prog[fail_at])
    THEN [bus |-> [i \in 1..Len(prog) |-> Event(prog[i], TRUE)] \o <<>>, ret |-> ESP_OK]
    ELSE LET upto == [i \in 1..fail_at |-> Event(prog[i], i # fail_at)] \o <<>>
             skip == prog[fail_at].skip
             rest == Len(prog) - fail_at - skip
         IN  IF skip = -1
             THEN [bus |-> upto, ret |-> ESP_FAIL]
             ELSE [bus |-> upto \o [i \in 1..rest |-> Event(prog[fail_at + skip + i], TRUE)],
                   ret |-> ESP_OK]

\* A call of a driver function: CHECK_ARG first, then its writes.
Call(args_ok, prog, fail_at) ==
    IF args_ok THEN Exec(prog, fail_at) ELSE [bus |-> <<>>, ret |-> ESP_ERR_INVALID_ARG]

\* Mutant of BacklightAfter: the flag takes the requested value whatever
\* the write returned.
BacklightAfter_Unconditional(d, on, result) == on

\* lcd->backlight after switch_backlight(lcd, on) whose write returned
\* result: the assignment is behind the CHECK.
BacklightAfter(d, on, result) == IF result = ESP_OK THEN on ELSE d.backlight

\* The one write of switch_backlight: the backlight GPIO, or a sink image
\* holding the backlight bit alone.
BacklightWrite(d, on) ==
    IF ~d.write_cb
    THEN <<Checked("gpio", "bl", IF on THEN 1 ELSE 0)>>
    ELSE <<Checked("sink", "cb", IF on THEN 2 ^ d.bl ELSE 0)>>

\* switch_backlight(lcd, on): what reaches the bus, what is returned, and
\* the descriptor afterwards.
switch_backlight(d, on, fail_at) ==
    IF d.bl = HD44780_NOT_USED
    THEN [bus |-> <<>>, ret |-> ESP_ERR_NOT_SUPPORTED, lcd |-> d]
    ELSE LET r == Exec(BacklightWrite(d, on), fail_at)
         IN  [bus |-> r.bus, ret |-> r.ret,
              lcd |-> [d EXCEPT !.backlight = BacklightAfter(d, on, r.ret)]]

\* upload_character(num, data): CHECK_ARG, the address and the glyph rows,
\* then CHECK(gotoxy(lcd, 0, 0)), whose own CHECK_ARG can still refuse.
upload_character(d, wide, num, data, fail_at) ==
    IF ~UploadArgsOk(num) THEN [bus |-> <<>>, ret |-> ESP_ERR_INVALID_ARG]
    ELSE LET glyph == Exec(UploadGlyph(d, wide, num, data), fail_at)
             home == Call(GotoxyArgsOk(d, 0), gotoxy(d, wide, 0, 0),
                          fail_at - Len(UploadGlyph(d, wide, num, data)))
         IN  IF glyph.ret # ESP_OK THEN glyph
             ELSE [bus |-> glyph.bus \o home.bus, ret |-> home.ret]

\* ------------------------------------------------ the display controller
\*
\* The HD44780 at the other end of the bus: it samples RS and the data
\* lines on the falling edge of E.  In its 8-bit interface mode each edge
\* transfers a byte; in its 4-bit mode it reads DB7..DB4 only and two edges
\* make a byte, high nibble first.  On a 4-bit wiring DB3..DB0 are not
\* driven and read as `floating`.

\* Controller c with the byte b arriving as an instruction (RS low).
Instruction(c, b) ==
    IF b >= CMD_DDRAM_ADDR THEN [c EXCEPT !.ac = b - CMD_DDRAM_ADDR, !.cgram = FALSE]
    ELSE IF b >= CMD_CGRAM_ADDR THEN [c EXCEPT !.ac = b - CMD_CGRAM_ADDR, !.cgram = TRUE]
    ELSE IF b >= CMD_FUNC_SET
         THEN IF c.probe THEN c ELSE [c EXCEPT !.if8 = (Bit(b, 4) = 1), !.hi = -1]
    ELSE IF b >= CMD_SHIFT THEN c
    ELSE IF b >= CMD_DISPLAY_CTRL
         THEN [c EXCEPT !.on = (Bit(b, 2) = 1), !.cursor = (Bit(b, 1) = 1),
                        !.blink = (Bit(b, 0) = 1)]
    ELSE IF b >= CMD_ENTRY_MODE THEN [c EXCEPT !.inc = (Bit(b, 1) = 1)]
    ELSE IF b >= 2 THEN [c EXCEPT !.ac = 0, !.cgram = FALSE]
    ELSE IF b = CMD_CLEAR THEN [c EXCEPT !.ac = 0, !.cgram = FALSE, !.inc = TRUE]
    ELSE c

\* Controller c with the byte b arriving with RS as sampled: the transfer
\* is noted in got, then a data byte moves the address counter and an
\* instruction is carried out.
Transfer(c, b) ==
    LET noted == [c EXCEPT !.got = Append(c.got, [rs |-> c.rs, b |-> b])]
    IN  IF c.rs = 1
        THEN [noted EXCEPT !.ac = (c.ac + (IF c.inc THEN 1 ELSE 127)) % 128]
        ELSE Instruction(noted, b)

\* What the controller reads from its eight data pins.
DataPins(c) == IF c.wide THEN c.db ELSE (c.db \div 16) * 16 + c.floating

\* The falling edge of E.
Latch(c) ==
    IF c.if8 THEN Transfer(c, DataPins(c))
    ELSE IF c.hi = -1 THEN [c EXCEPT !.hi = DataPins(c) \div 16]
    ELSE Transfer([c EXCEPT !.hi = -1], c.hi * 16 + DataPins(c) \div 16)

SetE(c, level) == IF c.e = 1 /\ level = 0 THEN Latch([c EXCEPT !.e = 0]) ELSE [c EXCEPT !.e = level]

\* The byte b with its bit i made v.
WithBit(b, i, v) == b - Bit(b, i) * 2 ^ i + v * 2 ^ i

DataLine == [d0 |-> 0, d1 |-> 1, d2 |-> 2, d3 |-> 3, d4 |-> 4, d5 |-> 5, d6 |-> 6, d7 |-> 7]

\* One event of the bus seen by the controller.  A write that failed did
\* not reach the lines.  The sink of the 8-bit build carries the data byte
\* (RS and E are GPIOs); the sink of the 4-bit build carries an image of
\* RS, E and D4..D7.
Feed(c, ev) ==
    IF ev.k \in {"delay", "config"} \/ ~ev.ok THEN c
    ELSE IF ev.k = "gpio"
         THEN IF ev.pin = "rs" THEN [c EXCEPT !.rs = ev.v]
              ELSE IF ev.pin = "e" THEN SetE(c, ev.v)
              ELSE IF ev.pin \in DOMAIN DataLine
                   THEN [c EXCEPT !.db = WithBit(c.db, DataLine[ev.pin], ev.v)]
              ELSE c
    ELSE IF c.wide THEN [c EXCEPT !.db = ev.v]
    ELSE SetE([c EXCEPT !.rs = Bit(ev.v, pins.rs),
                        !.db = Bit(ev.v, pins.d7) * 128 + Bit(ev.v, pins.d6) * 64
                               + Bit(ev.v, pins.d5) * 32 + Bit(ev.v, pins.d4) * 16],
              Bit(ev.v, pins.e))

\* The controller after the events, fed in order (halving keeps the
\* evaluation shallow; the test on c.e has c evaluated before it is passed
\* on, it is always true).
RECURSIVE FeedAll(_, _)
FeedAll(c, events) ==
    IF c.e \notin {0, 1} \/ events = <<>> THEN c
    ELSE IF Len(events) = 1 THEN Feed(c, events[1])
    ELSE LET half == Len(events) \div 2
         IN  FeedAll(FeedAll(c, SubSeq(events, 1, half)), SubSeq(events, half + 1, Len(events)))

\* The controller after its internal reset, and two states a controller
\* that was not power-cycled can be in: 4-bit mode between bytes, 4-bit
\* mode with the first nibble of a byte received.
ResetController(wide, floating) ==
    [if8 |-> TRUE, hi |-> -1, on |-> FALSE, cursor |-> FALSE, blink |-> FALSE,
     ac |-> 0, cgram |-> FALSE, inc |-> TRUE,
     rs |-> 0, e |-> 0, db |-> 0, wide |-> wide, floating |-> floating,
     got |-> <<>>, probe |-> FALSE]

\* A probe on the bus: it reads transfers in the width the driver is
\* built for and never leaves that width.
Probe(wide) == [ResetController(wide, 0) EXCEPT !.if8 = wide, !.probe = TRUE]

\* The transfers (RS and byte) the events make at the built width.
Sent(events, wide) == FeedAll(Probe(wide), events).got

\* What the data pins carry at each falling edge of E, with RS: a byte on
\* an 8-bit wiring, a nibble (in the high half, the low half 0) on a 4-bit
\* wiring.
Strobes(events, wide) ==
    FeedAll([ResetController(wide, 0) EXCEPT !.probe = TRUE], events).got

PowerOnStates(wide, floating) ==
    { ResetController(wide, floating),
      [ResetController(wide, floating) EXCEPT !.if8 = FALSE, !.on = TRUE, !.cursor = TRUE, !.ac = 5],
      [ResetController(wide, floating) EXCEPT !.if8 = FALSE, !.hi = 0, !.on = TRUE, !.blink = TRUE,
                                               !.ac = 69] }

\* ---------------------------------------------------------------- my_dac

MY_DAC_VPWR_FULL_SCALE == 1023
MY_DAC_VLIM_FULL_SCALE == 255
MY_DAC_ZERO_SCALE == 0
MY_DAC_VPWR_SENTINEL == 1008
MY_DAC_SR_VLIM_OFFSET == 16

\* sizeof(my_hal::dac_code_t) in bits
CodeBits == 32

\* A dac_code_t (uint32_t) as its bits, bit 0 the least significant.
Word(n) == [i \in 0..(CodeBits - 1) |-> IF i < CodeBits - 1 THEN Bit(n, i) ELSE 0]

\* a & b, a | b, ~a and a << k on dac_code_t
And32(a, b) == [i \in 0..(CodeBits - 1) |-> IF a[i] = 1 /\ b[i] = 1 THEN 1 ELSE 0]
Or32(a, b) == [i \in 0..(CodeBits - 1) |-> IF a[i] = 1 \/ b[i] = 1 THEN 1 ELSE 0]
Not32(a) == [i \in 0..(CodeBits - 1) |-> 1 - a[i]]
Shl32(a, k) == [i \in 0..(CodeBits - 1) |-> IF i >= k THEN a[i - k] ELSE 0]

\* Calibrations my_params can hand out (set from the debug console and
\* kept in NVS): gains in counts per volt, offsets in counts, the soft
\* sentinel in units of 1/10000 V (the console accepts 0 to 4 V).
Calibrations ==
    { [gain_vpwr |-> 250, offset_vpwr |-> 0, gain_vlim |-> 50, offset_vlim |-> 0,
       sentinel |-> 40000],
      [gain_vpwr |-> 400, offset_vpwr |-> -3, gain_vlim |-> -40, offset_vlim |-> 260,
       sentinel |-> 25000] }

\* Voltages set_vpwr and set_vlim are called with: no number, infinities,
\* 0, -0.5, 0.002, 1.234, 3.0, 5.0 and 100 V.
VoltValues ==
    {NaN, PosInf, NegInf, Fin(0), Fin(-5000), Fin(20), Fin(12340), Fin(30000), Fin(50000),
     Fin(1000000)}

\* A count (in units of 1/10000) limited to [MY_DAC_ZERO_SCALE, full].
ClampScale(counts, full) ==
    IF counts > full * 10000 THEN full * 10000
    ELSE IF counts < MY_DAC_ZERO_SCALE * 10000 THEN MY_DAC_ZERO_SCALE * 10000
    ELSE counts

\* The code set_vpwr computes for the finite voltage volt: soft sentinel,
\* volt * gain + 0.5 + offset, limited to the full scale and to the
\* sentinel code, converted to dac_code_t (the fraction is dropped).
VpwrCode(cal, volt) ==
    LET v == IF volt.v > cal.sentinel THEN cal.sentinel ELSE volt.v
        counts == ClampScale(v * cal.gain_vpwr + 5000 + cal.offset_vpwr * 10000,
                             MY_DAC_VPWR_FULL_SCALE)
        limited == IF counts > MY_DAC_VPWR_SENTINEL * 10000 THEN MY_DAC_VPWR_SENTINEL * 10000
                   ELSE counts
    IN  limited \div 10000

\* The code set_vlim computes for the finite voltage volt.
VlimCode(cal, volt) ==
    ClampScale(volt.v * cal.gain_vlim + 5000 + cal.offset_vlim * 10000,
               MY_DAC_VLIM_FULL_SCALE) \div 10000

\* Mutant of VpwrImage: the image is assigned, not merged.
VpwrImage_Overwrites(image, code) ==
    Or32(And32(Word(code \div 4), Word(255)), Shl32(And32(Word(code), Word(3)), 8))

\* last_code &= ~(MY_DAC_VPWR_FULL_SCALE);
\* last_code |= (code >> 2u) & 0xFF; last_code |= (code & 0b11) << 8u;
VpwrImage(image, code) ==
    Or32(Or32(And32(image, Not32(Word(MY_DAC_VPWR_FULL_SCALE))),
              And32(Word(code \div 4), Word(255))),
         Shl32(And32(Word(code), Word(3)), 8))

\* last_code &= ~(MY_DAC_VLIM_FULL_SCALE << MY_DAC_SR_VLIM_OFFSET);
\* last_code |= code << MY_DAC_SR_VLIM_OFFSET;
VlimImage(image, code) ==
    Or32(And32(image, Not32(Shl32(Word(MY_DAC_VLIM_FULL_SCALE), MY_DAC_SR_VLIM_OFFSET))),
         Shl32(Word(code), MY_DAC_SR_VLIM_OFFSET))

\* my_dac::set_vpwr(volt) on the globals d of my_dac: a value that is not
\* finite is ignored.
set_vpwr(d, cal, volt) ==
    IF ~isfinite(volt) THEN d
    ELSE [d EXCEPT !.last_vpwr = volt,
                   !.last_code = VpwrImage(d.last_code, VpwrCode(cal, volt))]

\* my_dac::set_vlim(volt)
set_vlim(d, cal, volt) ==
    IF ~isfinite(volt) THEN d
    ELSE [d EXCEPT !.last_vlim = volt,
                   !.last_code = VlimImage(d.last_code, VlimCode(cal, volt))]

\* The globals of my_dac as one record, and the step that leaves them as
\* the record d.
DacNow == [last_code |-> last_code, last_vpwr |-> last_vpwr, last_vlim |-> last_vlim]

DacBecomes(d) ==
    /\ last_code' = d.last_code
    /\ last_vpwr' = d.last_vpwr
    /\ last_vlim' = d.last_vlim

NoDacCall == [fn |-> "none", volt |-> NaN]

\* ------------------------------------------------------ app_main: values

BUTTON_DEBOUNCE_DELAY == 10
MY_PWR_MAX == Fin(30000)
MY_VLIM_MAX == Fin(55000)
MY_VLIM_MIN == Fin(13000)

\* my_math::power_to_vpwr
power_to_vpwr(w) == w

\* my_math::vlim_to_dac_vlim: 5.831f - 0.66f * v
vlim_to_dac_vlim(v) ==
    IF v.k = "fin" THEN Fin(58310 - (6600 * v.v) \div 10000)
    ELSE IF v.k = "inf" THEN [v EXCEPT !.v = -v.v]
    ELSE v

\* my_math::encoder_to_power: ENCODER_RESOLUTION_STEP (0.001 W) per count
encoder_to_power(cnt) == Fin(cnt * 10)

\* a < b on floats: false when either is no number.
FloatLt(a, b) ==
    /\ a.k # "nan" /\ b.k # "nan"
    /\ IF a.k = "inf" THEN a.v < 0 /\ a # b
       ELSE IF b.k = "inf" THEN b.v > 0
       ELSE a.v < b.v

\* The holding register as get_pwr_setpoint / get_vlim_setpoint return it:
\* below lo it becomes lo, above hi it becomes hi.
ClampSetpoint(f, lo, hi) == IF FloatLt(f, lo) THEN lo ELSE IF FloatLt(hi, f) THEN hi ELSE f

\* my_params::get_last_saved_vlim(): 5.0 V
LastSavedVlim == Fin(50000)

\* The statics and globals the main loop works on before app_main has run:
\* the specifications of the menu layer and the display driver keep them
\* so.
AppOff ==
    /\ calibration \in {CHOOSE c \in Calibrations : c.offset_vpwr = 0}
    /\ last_code = Word(0)
    /\ last_vpwr = Fin(0)
    /\ last_vlim = Fin(0)
    /\ dac_call = NoDacCall
    /\ init_ok = TRUE
    /\ is_on = FALSE
    /\ btn_counter = 0
    /\ pwr_to_set = Fin(0)
    /\ vlim_to_set = LastSavedVlim
    /\ coil_0 = FALSE
    /\ output_enable = FALSE
    /\ dbg_queue = <<>>
    /\ held_on = 0

\* ------------------------------------------------------------------- Init

\* The state when menu::init has returned: mutex created and free, repaint
\* task created and blocked in ulTaskNotifyTake, static storage as the
\* initialisers (or zero initialisation) leave it.
MenuInit ==
    /\ repaint_mutex = "none"
    /\ notify_val = 0
    /\ have_to_clear = TRUE
    /\ watts_buffer = <<>>
    /\ vlim_buffer = <<>>
    /\ prev_w = NaN
    /\ prev_vlim = NaN
    /\ ppc = "idle"
    /\ op = "none"
    /\ watts = NaN
    /\ vlim = NaN
    /\ p_xResult = pdFALSE
    /\ need_repaint = FALSE
    /\ rpc = "notify_take"
    /\ xResult = pdFALSE
    /\ drv = [by |-> "none", call |-> [fn |-> "init", x |-> 0, y |-> 0, s |-> <<>>]]
    /\ cyc = <<>>
    /\ req_after_stage = FALSE
    /\ sv_done = FALSE

ChSpace == 32

\* The display after my_lcd::init: every visible position a space, the
\* cursor at column 0 of line 0.
BlankScreen ==
    [x |-> 0, y |-> 0,
     rows |-> [l \in 1..MY_DISPLAY_HEIGHT |-> [c \in 1..MY_DISPLAY_WIDTH |-> ChSpace]]]

\* The observers at rest: `Spec` does not follow what the menu layer
\* discards (driver results) or only reports (log entries).
ObserversOff ==
    /\ restore_due = FALSE
    /\ bus_failed = FALSE
    /\ warnings = 0
    /\ last_args = <<>>
    /\ cycle_failed = FALSE
    /\ screen = BlankScreen

\* Descriptors a caller can hand to the driver: with or without write_cb,
\* either font, any line count from 0 to MaxLines.
Descriptors ==
    [write_cb : BOOLEAN, lines : 0..MaxLines,
     font : {HD44780_FONT_5X8, HD44780_FONT_5X10}, backlight : {TRUE}, bl : {pins.bl}]

\* Descriptors of a two-line display with and without a backlight line,
\* the backlight flag set or not.
BacklightDescriptors ==
    [write_cb : BOOLEAN, lines : {2}, font : {HD44780_FONT_5X8},
     backlight : BOOLEAN, bl : {pins.bl, HD44780_NOT_USED}]

\* lcd_cfg of my_hal.cpp
lcd_cfg ==
    [write_cb |-> TRUE, lines |-> 2, font |-> HD44780_FONT_5X8, backlight |-> TRUE,
     bl |-> HD44780_NOT_USED]

Pages == {AN6866_PAGE_0, AN6866_PAGE_1}
Columns == {MY_MENU_COLUMN_OFFSET, 64}
Lines == 0..4
Texts == {<<>>, <<49, 46>>}

\* Glyph slots a caller passes to upload_character (valid ones are 0 to 7)
\* and the ten rows of the glyph it passes.
Slots == 0..8
Glyphs == {<<14, 17, 17, 31, 17, 17, 128, 1, 32, 0>>}

NoCall == [fn |-> "none", x |-> 0, y |-> 0, s |-> <<>>]
InitCall(page) == [fn |-> "init", x |-> page, y |-> 0, s |-> <<>>]
SetFunction(page) == [fn |-> "set_function", x |-> page, y |-> 0, s |-> <<>>]
Upload(num, data) == [fn |-> "upload_character", x |-> num, y |-> 0, s |-> data]
SwitchBacklight(on) == [fn |-> "switch_backlight", x |-> IF on THEN 1 ELSE 0, y |-> 0, s |-> <<>>]

\* The driver has not been called: the menu specifications keep it so.
DriverOff ==
    /\ lcd = lcd_cfg
    /\ MY_LCD_8_BIT = TRUE
    /\ ctl = ResetController(TRUE, 0)
    /\ bus = <<>>
    /\ ret = ESP_OK
    /\ dcall = NoCall
    /\ ncalls = 0

Init ==
    /\ MenuInit
    /\ ObserversOff
    /\ AppOff
    /\ DriverOff

\* --------------------------------------------------- FreeRTOS primitives

\* xTaskNotifyGive(repaint_task_handle): the notification value counts up.
NotifyGive(n) == IF n < MaxNotify THEN n + 1 ELSE MaxNotify

\* The value ulTaskNotifyTake(pdTRUE, ...) returns when the notification
\* value is n: the value before it is cleared.
NotifyTaken(n) == n

\* xSemaphoreTake(repaint_mutex, timeout) by task t: succeeds when the mutex
\* is free; times out (pdFALSE) only while another task holds it.
MutexTake(t, result) ==
    \/ /\ repaint_mutex = "none"
       /\ repaint_mutex' = t
       /\ result = pdTRUE
    \/ /\ repaint_mutex \notin {"none", t}
       /\ repaint_mutex' = repaint_mutex
       /\ result = pdFALSE

\* xSemaphoreGive(repaint_mutex)
MutexGive == repaint_mutex' = "none"

\* menu::repaint()
repaint ==
    /\ notify_val' = NotifyGive(notify_val)
    /\ req_after_stage' = TRUE

\* ------------------------------------------------- main task: set_values

\* The main task is back outside the menu API; the locals of the call die.
Return ==
    /\ ppc' = "idle"
    /\ op' = "none"
    /\ watts' = NaN
    /\ vlim' = NaN
    /\ p_xResult' = pdFALSE
    /\ need_repaint' = FALSE

\* Mutant of NeedRepaint: the change is looked for in the formatted texts.
NeedRepaint_OnTexts(w, v) == WattsText(w) # watts_buffer \/ VlimText(v) # vlim_buffer

\* bool need_repaint = (prev_w != watts) || (prev_vlim != vlim);
NeedRepaint(w, v) == FloatNe(prev_w, w) \/ FloatNe(prev_vlim, v)

\* Mutant of ReleaseRepaintMutex: the failed acquisition is only logged, as
\* print_message does, and no repaint is scheduled.
ReleaseRepaintMutex_NoReschedule ==
    /\ IF p_xResult = pdTRUE THEN MutexGive ELSE UNCHANGED repaint_mutex
    /\ UNCHANGED <<notify_val, req_after_stage>>

\* RELEASE_REPAINT_MUTEX(): give the mutex if it was taken, else warn and
\* call repaint().
ReleaseRepaintMutex ==
    IF p_xResult = pdTRUE
    THEN /\ MutexGive
         /\ UNCHANGED <<notify_val, req_after_stage>>
    ELSE /\ repaint
         /\ UNCHANGED repaint_mutex

\* set_values(w, v) is entered: ACQUIRE_REPAINT_MUTEX() returns (with the
\* mutex, or after its timeout without it) and need_repaint is computed.
SetValues_Acquire(w, v) ==
    /\ ppc = "idle"
    /\ MutexTake("main", p_xResult')
    /\ op' = "set_values"
    /\ watts' = w
    /\ vlim' = v
    /\ need_repaint' = NeedRepaint(w, v)
    /\ ppc' = "sv_watts"
    /\ UNCHANGED <<notify_val, cache, statics, repaint_task, drv, cyc, history>>

\* The watts field is formatted into watts_buffer.  With the mutex held no
\* other task reads the buffer meanwhile; without it the write is visible
\* half done.
SetValues_Watts ==
    /\ ppc = "sv_watts"
    /\ IF p_xResult = pdTRUE
       THEN /\ watts_buffer' = WattsText(watts)
            /\ ppc' = "sv_vlim"
       ELSE /\ watts_buffer' \in PartialWrites(watts_buffer, WattsText(watts))
            /\ ppc' = "sv_watts_end"
    /\ req_after_stage' = FALSE
    /\ UNCHANGED <<repaint_mutex, notify_val, have_to_clear, vlim_buffer, statics,
                   main_locals, repaint_task, drv, cyc, sv_done>>

\* The unlocked write of watts_buffer completes.
SetValues_WattsEnd ==
    /\ ppc = "sv_watts_end"
    /\ watts_buffer' = WattsText(watts)
    /\ ppc' = "sv_vlim"
    /\ UNCHANGED <<repaint_mutex, notify_val, have_to_clear, vlim_buffer, statics,
                   main_locals, repaint_task, drv, cyc, history>>

\* prev_w = watts; prev_vlim = vlim;
SetPrev ==
    /\ prev_w' = watts
    /\ prev_vlim' = vlim

\* The vlim field is formatted into vlim_buffer, then the arguments are
\* remembered.
SetValues_Vlim ==
    /\ ppc = "sv_vlim"
    /\ IF p_xResult = pdTRUE
       THEN /\ vlim_buffer' = VlimText(vlim)
            /\ SetPrev
            /\ ppc' = "sv_release"
       ELSE /\ vlim_buffer' \in PartialWrites(vlim_buffer, VlimText(vlim))
            /\ UNCHANGED statics
            /\ ppc' = "sv_vlim_end"
    /\ req_after_stage' = FALSE
    /\ UNCHANGED <<repaint_mutex, notify_val, have_to_clear, watts_buffer,
                   main_locals, repaint_task, drv, cyc, sv_done>>

\* The unlocked write of vlim_buffer completes.
SetValues_VlimEnd ==
    /\ ppc = "sv_vlim_end"
    /\ vlim_buffer' = VlimText(vlim)
    /\ SetPrev
    /\ ppc' = "sv_release"
    /\ UNCHANGED <<repaint_mutex, notify_val, have_to_clear, watts_buffer,
                   main_locals, repaint_task, drv, cyc, history>>

\* RELEASE_REPAINT_MUTEX(); return need_repaint;
SetValues_Release ==
    /\ ppc = "sv_release"
    /\ ReleaseRepaintMutex
    /\ Return
    /\ sv_done' = TRUE
    /\ UNCHANGED <<cache, statics, repaint_task, drv, cyc>>

\* ---------------------------------------------------- main task: repaint

\* Mutant of Repaint_Call: repaint() redraws the watts field itself, from
\* the calling task, instead of notifying the repaint task.
Repaint_Call_Direct ==
    /\ ppc = "idle"
    /\ Drive("main", Puts(watts_buffer))
    /\ UNCHANGED <<repaint_mutex, notify_val, cache, statics, main_task, repaint_task,
                   cyc, history>>

\* menu::repaint() called by the main task.
Repaint_Call ==
    /\ ppc = "idle"
    /\ repaint
    /\ UNCHANGED <<repaint_mutex, cache, statics, main_task, repaint_task, drv, cyc, sv_done>>

\* ------------------------------------- main task: print_str and messages

\* The text print_str is given: txt_messages[m] from print_message, the
\* formatted copy of it (at most MY_DISPLAY_WIDTH * MY_DISPLAY_HEIGHT
\* characters) from print_message_f, a caller's string otherwise.
MessageText(o) ==
    IF o = "print_message_f"
    THEN Truncate(txt_messages[1], MY_DISPLAY_WIDTH * MY_DISPLAY_HEIGHT + 1)
    ELSE txt_messages[1]

\* print_message(m) / print_message_f(m, ...) is entered and
\* ACQUIRE_REPAINT_MUTEX() returns, with the mutex or without it.
PrintMessage_Acquire(o) ==
    /\ ppc = "idle"
    /\ MutexTake("main", p_xResult')
    /\ op' = o
    /\ ppc' = "ps_clear"
    /\ UNCHANGED <<notify_val, cache, statics, watts, vlim, need_repaint,
                   repaint_task, drv, cyc, history>>

\* print_str(s) is called directly: no lock is involved.
PrintStr_Call ==
    /\ ppc = "idle"
    /\ op' = "print_str"
    /\ ppc' = "ps_clear"
    /\ UNCHANGED <<repaint_mutex, notify_val, cache, statics, watts, vlim, p_xResult,
                   need_repaint, repaint_task, drv, cyc, history>>

\* print_str: my_lcd::clear(lcd_cfg);
PrintStr_Clear ==
    /\ ppc = "ps_clear"
    /\ Drive("main", Clear)
    /\ ppc' = "ps_puts"
    /\ UNCHANGED <<repaint_mutex, notify_val, cache, statics, main_locals,
                   repaint_task, cyc, history>>

\* print_str: my_lcd::puts(lcd_cfg, s);
PrintStr_Puts ==
    /\ ppc = "ps_puts"
    /\ Drive("main", Puts(MessageText(op)))
    /\ ppc' = "ps_flag"
    /\ UNCHANGED <<repaint_mutex, notify_val, cache, statics, main_locals,
                   repaint_task, cyc, history>>

\* print_str: have_to_clear = true; and print_str returns.
PrintStr_Flag ==
    /\ ppc = "ps_flag"
    /\ have_to_clear' = TRUE
    /\ IF op = "print_str"
       THEN Return
       ELSE /\ ppc' = "pm_flag"
            /\ UNCHANGED main_locals
    /\ UNCHANGED <<repaint_mutex, notify_val, watts_buffer, vlim_buffer, statics,
                   repaint_task, drv, cyc, history>>

\* print_message: have_to_clear = true;
PrintMessage_Flag ==
    /\ ppc = "pm_flag"
    /\ have_to_clear' = TRUE
    /\ ppc' = "pm_give"
    /\ UNCHANGED <<repaint_mutex, notify_val, watts_buffer, vlim_buffer, statics,
                   main_locals, repaint_task, drv, cyc, history>>

\* Mutant of PrintMessage_Give: the mutex is given whatever the take
\* returned.
PrintMessage_Give_Unconditional ==
    /\ ppc = "pm_give"
    /\ MutexGive
    /\ Return
    /\ UNCHANGED <<notify_val, cache, statics, repaint_task, drv, cyc, history>>

\* print_message: if (xResult == pdTRUE) xSemaphoreGive(repaint_mutex);
\* else a warning is logged; and print_message returns.
PrintMessage_Give ==
    /\ ppc = "pm_give"
    /\ IF p_xResult = pdTRUE THEN MutexGive ELSE UNCHANGED repaint_mutex
    /\ Return
    /\ UNCHANGED <<notify_val, cache, statics, repaint_task, drv, cyc, history>>

\* ----------------------------------------------------------- repaint task

pos_vlim == [x |-> 0, y |-> 1]
pos_pwr_lbl_pos == [x |-> MY_MENU_COLUMN_OFFSET, y |-> 0]
pos_vlim_lbl_pos == [x |-> MY_MENU_COLUMN_OFFSET, y |-> 1]

\* Mutant of AfterNotifyTake: the task goes for the lock whatever
\* ulTaskNotifyTake returned.
AfterNotifyTake_Unconditional(result) == "mutex_take"

\* Where the task goes with the value ulTaskNotifyTake returned:
\* if (xResult == pdTRUE) { ...redraw... } else vTaskDelay(10 ms)
AfterNotifyTake(result) == IF result = pdTRUE THEN "mutex_take" ELSE "delay"

\* ulTaskNotifyTake(pdTRUE, 200 ms) returns because the task was notified:
\* it returns the notification value and clears it.
Task_Notified ==
    /\ rpc = "notify_take"
    /\ notify_val > 0
    /\ xResult' = NotifyTaken(notify_val)
    /\ notify_val' = 0
    /\ rpc' = AfterNotifyTake(xResult')
    /\ UNCHANGED <<repaint_mutex, cache, statics, main_task, drv, cyc, history>>

\* ulTaskNotifyTake(pdTRUE, 200 ms) times out: no notification came.
Task_NotifyTimeout ==
    /\ rpc = "notify_take"
    /\ notify_val = 0
    /\ xResult' = NotifyTaken(notify_val)
    /\ rpc' = AfterNotifyTake(xResult')
    /\ UNCHANGED <<repaint_mutex, notify_val, cache, statics, main_task, drv, cyc, history>>

\* vTaskDelay(10 ms) of the else branch.
Task_Delay ==
    /\ rpc = "delay"
    /\ rpc' = "notify_take"
    /\ UNCHANGED <<repaint_mutex, notify_val, cache, statics, main_task, xResult,
                   drv, cyc, history>>

\* What the task does when xSemaphoreTake failed: the if has no else, the
\* loop starts over.
OnLockTimeout ==
    /\ rpc' = "notify_take"
    /\ UNCHANGED <<notify_val, req_after_stage>>

\* xResult = xSemaphoreTake(menu::repaint_mutex, 200 ms); if (xResult == pdTRUE)
Task_MutexTake ==
    /\ rpc = "mutex_take"
    /\ MutexTake("repaint", xResult')
    /\ IF xResult' = pdTRUE
       THEN /\ rpc' = "draw_first"
            /\ UNCHANGED <<notify_val, req_after_stage>>
       ELSE OnLockTimeout
    /\ UNCHANGED <<cache, statics, main_task, drv, cyc, sv_done>>

\* One driver call of the redraw.
Task_Drive(call, first) ==
    /\ Drive("repaint", call)
    /\ cyc' = IF first THEN <<call>> ELSE Append(cyc, call)

\* Mutant of FirstCall: the redraw never clears, it only homes the cursor.
FirstCall_NeverClears == GotoXY(0, 0)

\* if (have_to_clear) clear(); else gotoxy(0, 0);
FirstCall == IF have_to_clear THEN Clear ELSE GotoXY(0, 0)

Task_DrawFirst ==
    /\ rpc = "draw_first"
    /\ Task_Drive(FirstCall, TRUE)
    /\ rpc' = "draw_watts"
    /\ UNCHANGED <<repaint_mutex, notify_val, cache, statics, main_task, xResult, history>>

\* puts(watts_buffer);
Task_DrawWatts ==
    /\ rpc = "draw_watts"
    /\ Task_Drive(Puts(watts_buffer), FALSE)
    /\ rpc' = "label_watts"
    /\ UNCHANGED <<repaint_mutex, notify_val, cache, statics, main_task, xResult, history>>

\* if (have_to_clear) { gotoxy(pos_pwr_lbl_pos); ...
Task_LabelWatts ==
    /\ rpc = "label_watts"
    /\ IF have_to_clear
       THEN /\ Task_Drive(GotoXY(pos_pwr_lbl_pos.x, pos_pwr_lbl_pos.y), FALSE)
            /\ rpc' = "label_watts_puts"
       ELSE /\ rpc' = "goto_vlim"
            /\ UNCHANGED <<drv, cyc>>
    /\ UNCHANGED <<repaint_mutex, notify_val, cache, statics, main_task, xResult, history>>

\* ... puts(txt_units); }
Task_LabelWattsPuts ==
    /\ rpc = "label_watts_puts"
    /\ Task_Drive(Puts(txt_units), FALSE)
    /\ rpc' = "goto_vlim"
    /\ UNCHANGED <<repaint_mutex, notify_val, cache, statics, main_task, xResult, history>>

\* gotoxy(pos_vlim);
Task_GotoVlim ==
    /\ rpc = "goto_vlim"
    /\ Task_Drive(GotoXY(pos_vlim.x, pos_vlim.y), FALSE)
    /\ rpc' = "draw_vlim"
    /\ UNCHANGED <<repaint_mutex, notify_val, cache, statics, main_task, xResult, history>>

\* puts(vlim_buffer);
Task_DrawVlim ==
    /\ rpc = "draw_vlim"
    /\ Task_Drive(Puts(vlim_buffer), FALSE)
    /\ rpc' = "label_vlim"
    /\ UNCHANGED <<repaint_mutex, notify_val, cache, statics, main_task, xResult, history>>

\* if (have_to_clear) { gotoxy(pos_vlim_lbl_pos); ...
Task_LabelVlim ==
    /\ rpc = "label_vlim"
    /\ IF have_to_clear
       THEN /\ Task_Drive(GotoXY(pos_vlim_lbl_pos.x, pos_vlim_lbl_pos.y), FALSE)
            /\ rpc' = "label_vlim_puts"
       ELSE /\ rpc' = "clear_flag"
            /\ UNCHANGED <<drv, cyc>>
    /\ UNCHANGED <<repaint_mutex, notify_val, cache, statics, main_task, xResult, history>>

\* ... puts(txt_units_vlim); }
Task_LabelVlimPuts ==
    /\ rpc = "label_vlim_puts"
    /\ Task_Drive(Puts(txt_units_vlim), FALSE)
    /\ rpc' = "clear_flag"
    /\ UNCHANGED <<repaint_mutex, notify_val, cache, statics, main_task, xResult, history>>

\* menu::have_to_clear = false;
Task_ClearFlag ==
    /\ rpc = "clear_flag"
    /\ have_to_clear' = FALSE
    /\ rpc' = "give"
    /\ UNCHANGED <<repaint_mutex, notify_val, watts_buffer, vlim_buffer, statics,
                   main_task, xResult, drv, cyc, history>>

\* xSemaphoreGive(menu::repaint_mutex); and the loop starts over.
Task_Give ==
    /\ rpc = "give"
    /\ MutexGive
    /\ rpc' = "notify_take"
    /\ UNCHANGED <<notify_val, cache, statics, main_task, xResult, drv, cyc, history>>

\* ----------------------------------------------------------- specification

MainTask ==
    \/ \E in \in Inputs : SetValues_Acquire(in[1], in[2])
    \/ SetValues_Watts
    \/ SetValues_WattsEnd
    \/ SetValues_Vlim
    \/ SetValues_VlimEnd
    \/ SetValues_Release
    \/ Repaint_Call
    \/ \E o \in {"print_message", "print_message_f"} : PrintMessage_Acquire(o)
    \/ PrintStr_Call
    \/ PrintStr_Clear
    \/ PrintStr_Puts
    \/ PrintStr_Flag
    \/ PrintMessage_Flag
    \/ PrintMessage_Give

RepaintTask ==
    \/ Task_Notified
    \/ Task_NotifyTimeout
    \/ Task_Delay
    \/ Task_MutexTake
    \/ Task_DrawFirst
    \/ Task_DrawWatts
    \/ Task_LabelWatts
    \/ Task_LabelWattsPuts
    \/ Task_GotoVlim
    \/ Task_DrawVlim
    \/ Task_LabelVlim
    \/ Task_LabelVlimPuts
    \/ Task_ClearFlag
    \/ Task_Give

Next ==
    \/ MainTask /\ UNCHANGED <<observers, driver_vars, app_vars>>
    \/ RepaintTask /\ UNCHANGED <<observers, driver_vars, app_vars>>

Spec == Init /\ [][Next]_vars

\* ------------------------------------------------- the menu layer observed

PrintOps == {"print_str", "print_message", "print_message_f"}

\* The step is a driver call of the menu layer: print_str's clear or puts,
\* or one of the calls of the repaint task's redraw.
DriverCallStep ==
    \/ (ppc \in {"ps_clear", "ps_puts"} /\ ppc' # ppc)
    \/ cyc' # cyc

\* Every driver function returns esp_err_t and every call of the menu layer
\* discards it: a failing call changes nothing in the menu layer.  The
\* observer records that some call has failed.
ObserveDriverResult ==
    bus_failed' \in (IF DriverCallStep THEN {bus_failed, TRUE} ELSE {bus_failed})

\* The step executes an ESP_LOGW of the menu layer: the else branch of
\* RELEASE_REPAINT_MUTEX() in set_values, or the else branch that ends
\* print_message / print_message_f.
LogsWarning ==
    /\ ppc \in {"sv_release", "pm_give"}
    /\ ppc' = "idle"
    /\ p_xResult = pdFALSE

ObserveLog == warnings' = IF LogsWarning THEN (warnings + 1) % 2 ELSE warnings

\* print_message / print_message_f writes its text over the screen: the
\* grid is to be restored.  A redraw starts with clear: the restoring
\* redraw has begun.
ObserveRestore ==
    restore_due' = IF op \in PrintOps \ {"print_str"} /\ ppc = "ps_puts" /\ ppc' # ppc THEN TRUE
                   ELSE IF rpc = "draw_first" /\ cyc' = <<Clear>> THEN FALSE
                   ELSE restore_due

Observe ==
    ObserveDriverResult /\ ObserveLog /\ ObserveRestore /\ UNCHANGED <<last_args, cycle_failed, screen>>

\* menu::init has returned; my_lcd::init inside it returned ESP_OK or a
\* failure, and the mutex and the repaint task were created either way.
ObservedInit ==
    /\ MenuInit
    /\ restore_due = FALSE
    /\ bus_failed \in BOOLEAN
    /\ warnings = 0
    /\ last_args = <<>>
    /\ cycle_failed = FALSE
    /\ screen = BlankScreen
    /\ AppOff
    /\ DriverOff

ObservedNext ==
    \/ MainTask /\ Observe /\ UNCHANGED <<driver_vars, app_vars>>
    \/ RepaintTask /\ Observe /\ UNCHANGED <<driver_vars, app_vars>>

ObservedSpec == ObservedInit /\ [][ObservedNext]_vars

\* ------------------------------------------- the redraw cycle observed

\* The results of the driver calls of a redraw, which the repaint task
\* discards: the first call of a cycle starts the record, each call may
\* return ESP_OK or a failure.
ObserveCycle ==
    cycle_failed' \in (IF cyc' = cyc THEN {cycle_failed}
                       ELSE IF rpc = "draw_first" THEN BOOLEAN
                       ELSE {cycle_failed, TRUE})

CycleNext ==
    \/ MainTask /\ ObserveCycle
          /\ UNCHANGED <<restore_due, bus_failed, warnings, last_args, screen, driver_vars, app_vars>>
    \/ RepaintTask /\ ObserveCycle
          /\ UNCHANGED <<restore_due, bus_failed, warnings, last_args, screen, driver_vars, app_vars>>

CycleSpec == Init /\ [][CycleNext]_vars

\* ------------------------------------------------- set_values on its own

\* The step is the return of set_values: its arguments become those of
\* the previous call.
ObserveArgs ==
    last_args' = IF ppc = "sv_release" /\ ppc' = "idle" THEN <<watts, vlim>> ELSE last_args

\* app_main calling set_values again and again, alone: no other task holds
\* the mutex, every acquisition succeeds.
ValuesNext ==
    \/ \E w \in WattsValues, v \in VlimValues :
          SetValues_Acquire(w, v) /\ ObserveArgs
            /\ UNCHANGED <<restore_due, bus_failed, warnings, cycle_failed, screen, driver_vars, app_vars>>
    \/ SetValues_Watts /\ ObserveArgs /\ UNCHANGED <<restore_due, bus_failed, warnings, cycle_failed, screen, driver_vars, app_vars>>
    \/ SetValues_Vlim /\ ObserveArgs /\ UNCHANGED <<restore_due, bus_failed, warnings, cycle_failed, screen, driver_vars, app_vars>>
    \/ SetValues_Release /\ ObserveArgs
          /\ UNCHANGED <<restore_due, bus_failed, warnings, cycle_failed, screen, driver_vars, app_vars>>

ValuesSpec == Init /\ [][ValuesNext]_vars

\* ------------------------------------------------- the screen observed

\* The display after the driver call `call` has reached it (every write
\* succeeding): clear blanks it and homes the cursor, gotoxy moves the
\* cursor, puts writes its characters from the cursor on, to the right,
\* and leaves every other position as it was.
ScreenAfter(scr, call) ==
    IF call.fn = "clear" THEN BlankScreen
    ELSE IF call.fn = "gotoxy" THEN [scr EXCEPT !.x = call.x, !.y = call.y]
    ELSE IF call.fn = "puts"
         THEN [scr EXCEPT !.x = scr.x + Len(call.s),
                          !.rows[scr.y + 1] =
                              [c \in 1..MY_DISPLAY_WIDTH |->
                                  IF c - scr.x \in 1..Len(call.s) THEN call.s[c - scr.x] ELSE @[c]]]
    ELSE scr

\* The step is a driver call of the menu layer: the display follows it.
ObserveScreen ==
    screen' = IF DriverCallStep THEN ScreenAfter(screen, drv'.call) ELSE screen

\* app_main in its main loop (set_values, then repaint) and the repaint
\* task, with the display at the other end.
ScreenNext ==
    \/ /\ \/ \E in \in Inputs : SetValues_Acquire(in[1], in[2])
          \/ SetValues_Watts
          \/ SetValues_WattsEnd
          \/ SetValues_Vlim
          \/ SetValues_VlimEnd
          \/ SetValues_Release
          \/ Repaint_Call
       /\ ObserveScreen
       /\ UNCHANGED <<restore_due, bus_failed, warnings, last_args, cycle_failed, driver_vars, app_vars>>
    \/ RepaintTask /\ ObserveScreen
          /\ UNCHANGED <<restore_due, bus_failed, warnings, last_args, cycle_failed, driver_vars, app_vars>>

ScreenSpec == Init /\ [][ScreenNext]_vars

\* ------------------------------------------------ my_dac on its own

\* my_dac::set_vpwr(volt) is called and returns.
Dac_SetVpwr(volt) ==
    /\ DacBecomes(set_vpwr(DacNow, calibration, volt))
    /\ dac_call' = [fn |-> "set_vpwr", volt |-> volt]
    /\ UNCHANGED <<calibration, loop_vars>>

\* my_dac::set_vlim(volt) is called and returns.
Dac_SetVlim(volt) ==
    /\ DacBecomes(set_vlim(DacNow, calibration, volt))
    /\ dac_call' = [fn |-> "set_vlim", volt |-> volt]
    /\ UNCHANGED <<calibration, loop_vars>>

\* my_dac after my_dac::init with some calibration: the image all zero.
DacInit ==
    /\ MenuInit
    /\ ObserversOff
    /\ DriverOff
    /\ calibration \in Calibrations
    /\ last_code = Word(0)
    /\ last_vpwr = Fin(0)
    /\ last_vlim = Fin(0)
    /\ dac_call = NoDacCall
    /\ init_ok = TRUE
    /\ is_on = FALSE
    /\ btn_counter = 0
    /\ pwr_to_set = Fin(0)
    /\ vlim_to_set = LastSavedVlim
    /\ coil_0 = FALSE
    /\ output_enable = FALSE
    /\ dbg_queue = <<>>
    /\ held_on = 0

DacNext ==
    \/ \E volt \in VoltValues : Dac_SetVpwr(volt) /\ UNCHANGED <<menu_vars, observers, driver_vars>>
    \/ \E volt \in VoltValues : Dac_SetVlim(volt) /\ UNCHANGED <<menu_vars, observers, driver_vars>>

DacSpec == DacInit /\ [][DacNext]_vars

\* --------------------------------------------------- app_main: main loop

\* Length of dbg_queue (xQueueCreate(4, ...))
QueueLength == 4

\* What the main loop reads in one iteration: the encoder count (0 or
\* 1.234 W worth of counts) and the holding registers a Modbus master has
\* written (power: none or 5.0 W; limit: 5.0 or 1.0 V).
EncoderCounts == {0, 1234}
PowerRegisters == {NaN, Fin(50000)}
VlimRegisters == {Fin(50000), Fin(10000)}

\* if (menu::set_values(watts, vlim)) menu::repaint(); with the repaint
\* mutex free: both buffers are formatted, the arguments remembered, the
\* repaint task notified if either argument differs from the last call.
ShowValues(w, v) ==
    /\ repaint_mutex = "none"
    /\ watts_buffer' = WattsText(w)
    /\ vlim_buffer' = VlimText(v)
    /\ prev_w' = w
    /\ prev_vlim' = v
    /\ notify_val' = IF NeedRepaint(w, v) THEN NotifyGive(notify_val) ELSE notify_val
    /\ req_after_stage' = NeedRepaint(w, v)
    /\ sv_done' = TRUE
    /\ UNCHANGED <<repaint_mutex, have_to_clear, main_task, repaint_task, drv, cyc>>

\* xQueueReceive(dbg_queue, &dbg_cmd, 0) and the switch on the command.
ReceiveCommand ==
    IF dbg_queue # <<>>
    THEN /\ dbg_queue' = Tail(dbg_queue)
         /\ IF Head(dbg_queue) = "override_errors"
            THEN init_ok' = TRUE /\ output_enable' = TRUE
            ELSE UNCHANGED <<init_ok, output_enable>>
    ELSE UNCHANGED <<dbg_queue, init_ok, output_enable>>

\* Mutant of Loop: a long press with the output on switches it off but
\* leaves the remote-enable coil as it is.
Loop_KeepsRemote(btn, enc, psp, vsp) ==
    LET counted == IF btn THEN btn_counter + 1 ELSE 0
        remote == coil_0
        on == is_on \/ remote
        pwr == IF remote THEN ClampSetpoint(psp, Fin(0), MY_PWR_MAX) ELSE encoder_to_power(enc)
        vl == IF remote THEN ClampSetpoint(vsp, MY_VLIM_MIN, MY_VLIM_MAX) ELSE vlim_to_set
        long == counted > BUTTON_DEBOUNCE_DELAY
        d1 == IF on THEN set_vpwr(DacNow, calibration, power_to_vpwr(pwr)) ELSE DacNow
        d2 == IF on /\ remote THEN set_vlim(d1, calibration, vlim_to_dac_vlim(vl)) ELSE d1
        d3 == IF on /\ long THEN set_vpwr(d2, calibration, Fin(0)) ELSE d2
        on_end == IF long THEN ~on ELSE on
    IN  /\ btn_counter' = (IF long THEN 0 ELSE counted)
        /\ is_on' = on_end
        /\ UNCHANGED coil_0
        /\ pwr_to_set' = pwr
        /\ vlim_to_set' = vl
        /\ DacBecomes(d3)
        /\ dac_call' = (IF on /\ long THEN [fn |-> "set_vpwr", volt |-> Fin(0)]
                        ELSE IF on /\ remote
                             THEN [fn |-> "set_vlim", volt |-> vlim_to_dac_vlim(vl)]
                        ELSE IF on THEN [fn |-> "set_vpwr", volt |-> power_to_vpwr(pwr)]
                        ELSE dac_call)
        /\ ShowValues(IF on_end THEN pwr ELSE NaN, vl)
        /\ ReceiveCommand
        /\ held_on' = (IF btn /\ on THEN (IF is_on THEN held_on ELSE 0) + 1 ELSE 0)
        /\ UNCHANGED calibration

\* One iteration of the main loop, from reading the button to the delay
\* at its end.  btn is what get_btn_pressed() returns, enc what
\* get_encoder_counts() returns, psp and vsp the holding registers.
Loop(btn, enc, psp, vsp) ==
    LET counted == IF btn THEN btn_counter + 1 ELSE 0
        remote == coil_0
        on == is_on \/ remote
        pwr == IF remote THEN ClampSetpoint(psp, Fin(0), MY_PWR_MAX) ELSE encoder_to_power(enc)
        vl == IF remote THEN ClampSetpoint(vsp, MY_VLIM_MIN, MY_VLIM_MAX) ELSE vlim_to_set
        long == counted > BUTTON_DEBOUNCE_DELAY
        d1 == IF on THEN set_vpwr(DacNow, calibration, power_to_vpwr(pwr)) ELSE DacNow
        d2 == IF on /\ remote THEN set_vlim(d1, calibration, vlim_to_dac_vlim(vl)) ELSE d1
        d3 == IF on /\ long THEN set_vpwr(d2, calibration, Fin(0)) ELSE d2
        on_end == IF long THEN ~on ELSE on
    IN  /\ btn_counter' = (IF long THEN 0 ELSE counted)
        /\ is_on' = on_end
        /\ coil_0' = (IF on /\ long THEN FALSE ELSE coil_0)
        /\ pwr_to_set' = pwr
        /\ vlim_to_set' = vl
        /\ DacBecomes(d3)
        /\ dac_call' = (IF on /\ long THEN [fn |-> "set_vpwr", volt |-> Fin(0)]
                        ELSE IF on /\ remote
                             THEN [fn |-> "set_vlim", volt |-> vlim_to_dac_vlim(vl)]
                        ELSE IF on THEN [fn |-> "set_vpwr", volt |-> power_to_vpwr(pwr)]
                        ELSE dac_call)
        /\ ShowValues(IF on_end THEN pwr ELSE NaN, vl)
        /\ ReceiveCommand
        /\ held_on' = (IF btn /\ on THEN (IF is_on THEN held_on ELSE 0) + 1 ELSE 0)
        /\ UNCHANGED calibration

\* A Modbus master writes the remote-enable coil.
Modbus_WriteCoil(on) ==
    /\ coil_0 # on
    /\ coil_0' = on
    /\ UNCHANGED <<dac_vars, init_ok, is_on, btn_counter, pwr_to_set, vlim_to_set,
                   output_enable, dbg_queue, held_on>>

\* The console command override_error puts override_errors in dbg_queue.
Console_OverrideError ==
    /\ Len(dbg_queue) < QueueLength
    /\ dbg_queue' = Append(dbg_queue, "override_errors")
    /\ UNCHANGED <<dac_vars, init_ok, is_on, btn_counter, pwr_to_set, vlim_to_set, coil_0,
                   output_enable, held_on>>

\* The program as the main loop is entered: start-up has succeeded or
\* failed; my_hal::init has enabled the outputs; after a good start-up the
\* power DAC is at 0 V and the limit DAC at the saved limit, after a failed
\* one my_dac has not been called.
AppInit ==
    /\ MenuInit
    /\ ObserversOff
    /\ DriverOff
    /\ calibration \in Calibrations
    /\ init_ok \in BOOLEAN
    /\ \E d \in {[last_code |-> Word(0), last_vpwr |-> Fin(0), last_vlim |-> Fin(0)]} :
          \E started \in {set_vlim(set_vpwr(d, calibration, Fin(0)), calibration,
                                   vlim_to_dac_vlim(LastSavedVlim))} :
             /\ last_code = (IF init_ok THEN started.last_code ELSE d.last_code)
             /\ last_vpwr = (IF init_ok THEN started.last_vpwr ELSE d.last_vpwr)
             /\ last_vlim = (IF init_ok THEN started.last_vlim ELSE d.last_vlim)
    /\ dac_call = (IF init_ok
                   THEN [fn |-> "set_vlim", volt |-> vlim_to_dac_vlim(LastSavedVlim)]
                   ELSE NoDacCall)
    /\ is_on = FALSE
    /\ btn_counter = 0
    /\ pwr_to_set = Fin(0)
    /\ vlim_to_set = LastSavedVlim
    /\ coil_0 = FALSE
    /\ output_enable = TRUE
    /\ dbg_queue = <<>>
    /\ held_on = 0

AppNext ==
    \/ \E btn \in BOOLEAN, enc \in EncoderCounts, psp \in PowerRegisters, vsp \in VlimRegisters :
          Loop(btn, enc, psp, vsp) /\ UNCHANGED <<observers, driver_vars>>
    \/ \E on \in BOOLEAN : Modbus_WriteCoil(on) /\ UNCHANGED <<menu_vars, observers, driver_vars>>
    \/ Console_OverrideError /\ UNCHANGED <<menu_vars, observers, driver_vars>>

AppSpec == AppInit /\ [][AppNext]_vars

\* -------------------------------------------- display driver: state machine

\* A driver function is called and returns: its events are on the bus, the
\* controller has followed them.
Returned(call, result) ==
    /\ ncalls < MaxCalls
    /\ ncalls' = ncalls + 1
    /\ dcall' = call
    /\ \E r \in {result} :
          /\ bus' = r.bus
          /\ ret' = r.ret
          /\ ctl' = FeedAll([ctl EXCEPT !.got = <<>>], r.bus)
    /\ UNCHANGED <<lcd, MY_LCD_8_BIT>>

Drv_Init(page) ==
    Returned(InitCall(page), Call(InitArgsOk(lcd), init(lcd, MY_LCD_8_BIT, page), 0))

\* set_function has no CHECK_ARG.
Drv_SetFunction(page) ==
    Returned(SetFunction(page), Call(TRUE, set_function(lcd, MY_LCD_8_BIT, page), 0))

\* Mutant of Drv_Clear: a driver that remembers that the display is clear
\* and sends nothing for a clear that follows a clear.
Drv_Clear_SkipsWhenClear ==
    Returned(Clear, IF dcall = Clear THEN [bus |-> <<>>, ret |-> ESP_OK]
                    ELSE Call(TRUE, clear(lcd, MY_LCD_8_BIT), 0))

Drv_Clear == Returned(Clear, Call(TRUE, clear(lcd, MY_LCD_8_BIT), 0))

Drv_Gotoxy(col, line) ==
    Returned(GotoXY(col, line), Call(GotoxyArgsOk(lcd, line), gotoxy(lcd, MY_LCD_8_BIT, col, line), 0))

Drv_Puts(s) == Returned(Puts(s), Call(TRUE, puts(lcd, MY_LCD_8_BIT, s, 0), 0))

Drv_Upload(num, data) ==
    Returned(Upload(num, data), upload_character(lcd, MY_LCD_8_BIT, num, data, 0))

\* A descriptor, a build and a controller in some power-on state; no
\* driver function was called yet.
DriverInit ==
    /\ MenuInit
    /\ ObserversOff
    /\ AppOff
    /\ lcd \in Descriptors
    /\ MY_LCD_8_BIT \in BOOLEAN
    /\ \E floating \in (IF MY_LCD_8_BIT THEN {0} ELSE {0, 15}) : ctl \in PowerOnStates(MY_LCD_8_BIT, floating)
    /\ bus = <<>>
    /\ ret = ESP_OK
    /\ dcall = NoCall
    /\ ncalls = 0

DriverNext ==
    \/ \E page \in Pages : Drv_Init(page) /\ UNCHANGED <<menu_vars, observers, app_vars>>
    \/ \E page \in Pages : Drv_SetFunction(page) /\ UNCHANGED <<menu_vars, observers, app_vars>>
    \/ Drv_Clear /\ UNCHANGED <<menu_vars, observers, app_vars>>
    \/ \E col \in Columns, line \in Lines : Drv_Gotoxy(col, line) /\ UNCHANGED <<menu_vars, observers, app_vars>>
    \/ \E s \in Texts : Drv_Puts(s) /\ UNCHANGED <<menu_vars, observers, app_vars>>

DriverSpec == DriverInit /\ [][DriverNext]_vars

\* ------------------------------------------ display driver: failing writes

\* One call of a driver function during which write number fail_at fails.
\* The controller is not followed here.
Faulted(call, result) ==
    /\ dcall = NoCall
    /\ dcall' = call
    /\ \E r \in {result} :
          /\ bus' = r.bus
          /\ ret' = r.ret
    /\ UNCHANGED <<lcd, MY_LCD_8_BIT, ctl, ncalls>>

Flt_Init(page, fail_at) ==
    Faulted(InitCall(page), Call(InitArgsOk(lcd), init(lcd, MY_LCD_8_BIT, page), fail_at))

Flt_Clear(fail_at) == Faulted(Clear, Call(TRUE, clear(lcd, MY_LCD_8_BIT), fail_at))

Flt_Gotoxy(col, line, fail_at) ==
    Faulted(GotoXY(col, line),
            Call(GotoxyArgsOk(lcd, line), gotoxy(lcd, MY_LCD_8_BIT, col, line), fail_at))

Flt_Puts(s, fail_at) == Faulted(Puts(s), Call(TRUE, puts(lcd, MY_LCD_8_BIT, s, 0), fail_at))

Flt_Upload(num, data, fail_at) ==
    Faulted(Upload(num, data), upload_character(lcd, MY_LCD_8_BIT, num, data, fail_at))

FaultInit ==
    /\ MenuInit
    /\ ObserversOff
    /\ AppOff
    /\ lcd \in Descriptors
    /\ MY_LCD_8_BIT \in BOOLEAN
    /\ ctl = ResetController(MY_LCD_8_BIT, 0)
    /\ bus = <<>>
    /\ ret = ESP_OK
    /\ dcall = NoCall
    /\ ncalls = 0

FaultNext ==
    \/ \E page \in Pages, f \in 0..MaxFailAt :
          Flt_Init(page, f) /\ UNCHANGED <<menu_vars, observers, app_vars>>
    \/ \E f \in 0..MaxFailAt : Flt_Clear(f) /\ UNCHANGED <<menu_vars, observers, app_vars>>
    \/ \E col \in Columns, line \in Lines, f \in 0..MaxFailAt :
          Flt_Gotoxy(col, line, f) /\ UNCHANGED <<menu_vars, observers, app_vars>>
    \/ \E s \in Texts, f \in 0..MaxFailAt :
          Flt_Puts(s, f) /\ UNCHANGED <<menu_vars, observers, app_vars>>
    \/ \E num \in Slots, data \in Glyphs, f \in 0..MaxFailAt :
          Flt_Upload(num, data, f) /\ UNCHANGED <<menu_vars, observers, app_vars>>

FaultSpec == FaultInit /\ [][FaultNext]_vars

\* ------------------------------------------- display driver: glyph upload

\* The cursor is put somewhere on the first two lines, then a glyph is
\* uploaded; or the glyph is uploaded with the controller as power-on left
\* it.  Nothing is followed after the upload.
GlyphNext ==
    \/ \E col \in Columns, line \in {0, 1} :
          /\ dcall = NoCall
          /\ Drv_Gotoxy(col, line)
          /\ UNCHANGED <<menu_vars, observers, app_vars>>
    \/ \E num \in Slots, data \in Glyphs :
          /\ dcall.fn # "upload_character"
          /\ Drv_Upload(num, data)
          /\ UNCHANGED <<menu_vars, observers, app_vars>>

GlyphSpec == DriverInit /\ [][GlyphNext]_vars

\* ---------------------------------------------- display driver: backlight

\* switch_backlight(lcd, on) is called and returns; its write number
\* fail_at fails.  The descriptor is not const here: the flag may change.
Drv_SwitchBacklight(on, fail_at) ==
    /\ ncalls < MaxCalls
    /\ ncalls' = ncalls + 1
    /\ dcall' = SwitchBacklight(on)
    /\ \E r \in {switch_backlight(lcd, on, fail_at)} :
          /\ bus' = r.bus
          /\ ret' = r.ret
          /\ lcd' = r.lcd
          /\ ctl' = FeedAll([ctl EXCEPT !.got = <<>>], r.bus)
    /\ UNCHANGED MY_LCD_8_BIT

\* An initialised two-line display, its controller reading the bus in the
\* width the driver is built for.
BacklightInit ==
    /\ MenuInit
    /\ ObserversOff
    /\ AppOff
    /\ lcd \in BacklightDescriptors
    /\ MY_LCD_8_BIT \in BOOLEAN
    /\ ctl = [ResetController(MY_LCD_8_BIT, 0) EXCEPT !.if8 = MY_LCD_8_BIT, !.on = TRUE]
    /\ bus = <<>>
    /\ ret = ESP_OK
    /\ dcall = NoCall
    /\ ncalls = 0

BacklightNext ==
    \/ \E on \in BOOLEAN, f \in {0, 1} :
          Drv_SwitchBacklight(on, f) /\ UNCHANGED <<menu_vars, observers, app_vars>>
    \/ Drv_Clear /\ UNCHANGED <<menu_vars, observers, app_vars>>
    \/ \E col \in Columns, line \in {0, 1} :
          Drv_Gotoxy(col, line) /\ UNCHANGED <<menu_vars, observers, app_vars>>
    \/ \E s \in Texts : Drv_Puts(s) /\ UNCHANGED <<menu_vars, observers, app_vars>>

BacklightSpec == BacklightInit /\ [][BacklightNext]_vars


\* ------------------------------------------------------ observation helpers

\* The repaint task has issued the first driver call of a redraw and has
\* not yet left the redraw's call sequence.
InRedrawSequence ==
    rpc \in {"draw_watts", "label_watts", "label_watts_puts", "goto_vlim",
             "draw_vlim", "label_vlim", "label_vlim_puts"}

\* The main task has issued print_str's clear and not yet its puts.
InPrintStrSequence == ppc = "ps_puts"

\* The main task is at a statement of set_values that writes a buffer.
WritingBuffers == ppc \in {"sv_watts", "sv_watts_end", "sv_vlim", "sv_vlim_end"}

\* The repaint task is not in the middle of a redraw: cyc is a whole cycle.
CycleDone == rpc \in {"clear_flag", "give", "notify_take", "delay", "mutex_take"}

NotShown == <<-1>>

\* The text the last redraw wrote to the watts field (its second call).
ShownWatts == IF Len(cyc) >= 2 THEN cyc[2].s ELSE NotShown

\* The text the last redraw wrote to the vlim field (the call after
\* gotoxy(pos_vlim)).
ShownVlim ==
    LET at == { i \in 1..(Len(cyc) - 1) : cyc[i] = GotoXY(pos_vlim.x, pos_vlim.y) }
    IN  IF at = {} THEN NotShown ELSE cyc[(CHOOSE i \in at : TRUE) + 1].s

\* Nothing is pending anywhere: the repaint task is blocked waiting with no
\* notification, the main task is outside the menu API.
Quiescent == rpc = "notify_take" /\ notify_val = 0 /\ ppc = "idle"

\* Buffer contents that are whole: a formatted value, the placeholder, or
\* the empty string of a buffer never staged.
CompleteWatts == { WattsText(in[1]) : in \in Inputs } \cup {<<>>}
CompleteVlim == { VlimText(in[2]) : in \in Inputs } \cup {<<>>}

\* The driver calls of a full redraw of the texts w and v, in order.
FullRedraw(w, v) ==
    << Clear, Puts(w), GotoXY(MY_MENU_COLUMN_OFFSET, 0), Puts(txt_units),
       GotoXY(0, 1), Puts(v), GotoXY(MY_MENU_COLUMN_OFFSET, 1), Puts(txt_units_vlim) >>

\* ------------------------------------------------------------------ claims

\* C1: two (or more) repaint() calls made while the repaint task is blocked
\* waiting for its notification make the task, when it wakes, go on to
\* exactly one redraw (it heads for the redraw and no request stays
\* pending for a second one), and the redraw writes the buffers as they
\* are then.
C1_CoalescedWakeRedraws ==
    /\ [][(rpc = "notify_take" /\ notify_val >= 2 /\ rpc' # rpc)
            => (rpc' = "mutex_take" /\ notify_val' = 0)]_vars
    /\ [][(rpc = "draw_watts" /\ rpc' # rpc) => cyc'[Len(cyc')] = Puts(watts_buffer)]_vars
    /\ [][(rpc = "draw_vlim" /\ rpc' # rpc) => cyc'[Len(cyc')] = Puts(vlim_buffer)]_vars

\* C2: at most one task is inside a display-driver call sequence: the
\* clear+puts of print_str is never interleaved with the call sequence of
\* a redraw.
C2_NoInterleavedSequences == ~(InPrintStrSequence /\ InRedrawSequence)

\* C3 (as claimed): no operation of the main task writes to the display:
\* every driver call comes from the repaint task.
C3_OnlyRepaintTaskDrives == drv.by # "main"

\* C3 (amended): set_values and repaint() never issue a driver call from
\* the calling task; the only driver calls the main task makes are the
\* clear and the puts of print_str, called directly or by print_message /
\* print_message_f.
C3_MainDrivesOnlyInPrintStr ==
    [][(drv' # drv /\ drv'.by = "main")
         => (op \in PrintOps /\ ppc \in {"ps_clear", "ps_puts"}
             /\ drv'.call \in {Clear, Puts(MessageText(op))})]_vars

\* C3 witness: set_values and repaint() have run, a request is pending,
\* and the last call on the display is the main task's puts of a message.
C3_Witness ==
    /\ sv_done
    /\ notify_val > 0
    /\ drv = [by |-> "main", call |-> Puts(txt_messages[1])]

\* C4: no task performs a driver call while it holds the repaint mutex.
C4_NoDriverCallUnderLock ==
    /\ InRedrawSequence => repaint_mutex # "repaint"
    /\ InPrintStrSequence => repaint_mutex # "main"

\* C5: set_values writes the buffers only while the main task holds the
\* repaint mutex, and every value-field text the repaint task sends is a
\* whole text (a formatted value, the placeholder, or the never-staged
\* empty buffer), never a half-written one.
C5_BuffersWrittenUnderLock ==
    /\ WritingBuffers => repaint_mutex = "main"
    /\ ShownWatts \in CompleteWatts \cup {NotShown}
    /\ ShownVlim \in CompleteVlim \cup {NotShown}

\* C6: when set_values(a, b) did not get the lock, then as it returns the
\* buffers hold the formatting of a and of b, and a repaint has been
\* requested (the notification of the repaint task is pending).
C6_TimeoutStillStagesAndRequests ==
    [][(ppc = "sv_release" /\ p_xResult = pdFALSE /\ ppc' = "idle")
         => (/\ watts_buffer' = WattsText(watts)
             /\ vlim_buffer' = VlimText(vlim)
             /\ notify_val' >= 1
             /\ req_after_stage')]_vars

\* C6 witness: a set_values call whose lock acquisition failed has written
\* a number and the placeholder and is about to release and return.
C6_Witness ==
    /\ ppc = "sv_release"
    /\ p_xResult = pdFALSE
    /\ watts = Fin(12340)
    /\ watts_buffer = <<49, 46, 50, 51, 52>>
    /\ vlim_buffer = blank

\* C7: when the repaint task consumed a notification and then fails to get
\* the lock, it issues no driver call, goes back to waiting, and its
\* notification is pending again (re-armed).
C7_LockTimeoutRearms ==
    [][(rpc = "mutex_take" /\ rpc' = "notify_take")
         => (drv' = drv /\ cyc' = cyc /\ notify_val' >= 1)]_vars

\* C8: eventual consistency, in the form a finite run refutes: once values
\* were staged and repaint() was called after the last staging, the system
\* never comes to rest (repaint task blocked with nothing pending, main
\* task outside the API) with the last redraw showing anything but the
\* staged buffers.
C8_RestsOnlyWhenShown ==
    (Quiescent /\ sv_done /\ req_after_stage)
        => (ShownWatts = watts_buffer /\ ShownVlim = vlim_buffer)

\* C9: a set_values call with the same arguments as the previous call
\* returns false (need_repaint is false) and leaves both buffers as they
\* were, for every argument pair, NaN included.
C9_SetValuesIdempotent ==
    /\ [][(ppc = "idle" /\ ppc' = "sv_watts" /\ sv_done
              /\ watts' = prev_w /\ vlim' = prev_vlim)
            => need_repaint' = FALSE]_vars
    /\ [][(op = "set_values" /\ sv_done /\ watts = prev_w /\ vlim = prev_vlim)
            => UNCHANGED <<watts_buffer, vlim_buffer>>]_vars

\* C10: a redraw that finds have_to_clear set issues clear as its first
\* driver call, and the finished cycle is exactly: clear, the watts text,
\* gotoxy(6,0), "W", gotoxy(0,1), the vlim text, gotoxy(6,1), "V"; the two
\* texts are the buffers as they are when written.
C10_FullRedrawClearsFirstAndLabels ==
    /\ [][(rpc = "draw_first" /\ have_to_clear /\ rpc' # rpc) => cyc' = <<Clear>>]_vars
    /\ [][(rpc = "draw_watts" /\ rpc' # rpc) => cyc' = Append(cyc, Puts(watts_buffer))]_vars
    /\ [][(rpc = "draw_vlim" /\ rpc' # rpc) => cyc' = Append(cyc, Puts(vlim_buffer))]_vars
    /\ []((cyc # <<>> /\ cyc[1] = Clear /\ CycleDone)
            => (Len(cyc) = 8 /\ cyc = FullRedraw(cyc[2].s, cyc[6].s)))

\* C10 witness: a full redraw of staged values has just been completed.
C10_Witness ==
    /\ rpc = "give"
    /\ cyc = FullRedraw(<<49, 46, 50, 51, 52>>, blank)

\* C11: a redraw that finds have_to_clear unset (its first call is
\* gotoxy(0,0)) issues no clear, positions the cursor only at column 0, and
\* writes texts of at most 6 characters there, so that no character lands
\* at column 6 or beyond; and the buffers never hold more than 6
\* characters.
C11_PartialRedrawKeepsOffLabels ==
    /\ Len(watts_buffer) <= MY_MENU_COLUMN_OFFSET
    /\ Len(vlim_buffer) <= MY_MENU_COLUMN_OFFSET
    /\ (cyc # <<>> /\ cyc[1] = GotoXY(0, 0))
         => \A i \in 1..Len(cyc) :
               /\ cyc[i] # Clear
               /\ cyc[i].fn = "gotoxy" => cyc[i].x = 0
               /\ cyc[i].fn = "puts" => Len(cyc[i].s) <= MY_MENU_COLUMN_OFFSET

\* C12: once a print_message / print_message_f call has written its text
\* and returned, have_to_clear is true for as long as no redraw has
\* cleared the display after that text.
C12_FlagHeldUntilFullRedraw ==
    (restore_due /\ op \notin {"print_message", "print_message_f"}) => have_to_clear

\* C13: once a driver call of the menu layer has returned a failure
\* (my_lcd::init in menu::init included), the menu layer issues no driver
\* call any more.
C13_NoDriverCallAfterFailure == [][bus_failed => ~DriverCallStep]_vars

\* C14: every lock acquisition that times out is followed by a warning on
\* its path: set_values and print_message / print_message_f log as they
\* return, the repaint task logs as it gives the redraw up.
C14_EveryLockTimeoutWarns ==
    /\ [][(ppc \in {"sv_release", "pm_give"} /\ ppc' = "idle" /\ p_xResult = pdFALSE)
            => warnings' # warnings]_vars
    /\ [][(rpc = "mutex_take" /\ rpc' = "notify_take") => warnings' # warnings]_vars

\* C15: the number of pending notifications of the repaint task is always
\* 0 or 1, and a repaint() call made while one is pending leaves it at 1.
C15_SingleSlotTrigger ==
    /\ [](notify_val \in {0, 1})
    /\ [][(ppc = "idle" /\ ppc' = "idle" /\ notify_val = 1 /\ notify_val' # 0)
            => notify_val' = 1]_vars

\* C16: when init has returned ESP_OK (valid descriptor, no failing
\* write), the controller has its display on, cursor and blink off, and
\* its address counter at DDRAM address 0; and the last transfer on the
\* bus is the display-control command with only the display-on bit.
C16_InitEndsDisplayOnAtHome ==
    (dcall.fn = "init" /\ ret = ESP_OK)
        => /\ ctl.on /\ ~ctl.cursor /\ ~ctl.blink
           /\ ctl.ac = 0 /\ ~ctl.cgram
           /\ Sent(bus, MY_LCD_8_BIT) # <<>>
           /\ Sent(bus, MY_LCD_8_BIT)[Len(Sent(bus, MY_LCD_8_BIT))]
                 = [rs |-> 0, b |-> Or(CMD_DISPLAY_CTRL, ARG_DC_DISPLAY_ON)]

\* The events of the last call contain a write that failed.
SomeWriteFailed == \E i \in 1..Len(bus) : ~bus[i].ok

\* The last call returned a failure and made no write after its first
\* failing one.
StoppedAtFirstFailure ==
    /\ ret = ESP_FAIL
    /\ \A i \in 1..Len(bus) : ~bus[i].ok => \A j \in (i + 1)..Len(bus) : ~IsWrite(bus[j])

\* C17: when a write made during init fails (a GPIO write, a sink write,
\* gpio_config; the warm-up writes included), init returns the failure and
\* makes no write after the failing one.
C17_InitStopsAtFirstFailure ==
    (dcall.fn = "init" /\ SomeWriteFailed) => StoppedAtFirstFailure

\* The data transfers that send the first n characters of s.
CharsSent(s, n) == [i \in 1..n |-> [rs |-> 1, b |-> s[i]]] \o <<>>

\* C18: when a write for the k-th character of puts(s) fails, puts returns
\* the failure, makes no write after the failing one, and what was
\* transferred is the characters 1..k-1, each once.
C18_PutsStopsAtFailingCharacter ==
    (dcall.fn = "puts" /\ SomeWriteFailed)
        => /\ StoppedAtFirstFailure
           /\ \E k \in 1..Len(dcall.s) : Sent(bus, MY_LCD_8_BIT) = CharsSent(dcall.s, k - 1)

\* C19: init with a descriptor whose line count is 0 or above 4 returns
\* ESP_ERR_INVALID_ARG and nothing at all reaches the bus: no GPIO
\* configuration, no write, no delay.
C19_InitRejectsLineCount ==
    (dcall.fn = "init" /\ lcd.lines \notin 1..4)
        => (ret = ESP_ERR_INVALID_ARG /\ bus = <<>>)

\* C19 witness: init was called on a direct-GPIO descriptor of 5 lines and
\* returned ESP_ERR_INVALID_ARG.
C19_Witness ==
    /\ dcall.fn = "init"
    /\ lcd.lines = 5
    /\ ~lcd.write_cb
    /\ ret = ESP_ERR_INVALID_ARG

\* C20: gotoxy(col, line) with line below the descriptor's line count and
\* below 4 makes exactly one transfer, a command (RS low): set DDRAM
\* address, the address being line_addr[line] + col.
C20_GotoxySendsTableAddress ==
    (dcall.fn = "gotoxy" /\ dcall.y < lcd.lines /\ dcall.y < 4)
        => /\ ret = ESP_OK
           /\ Sent(bus, MY_LCD_8_BIT)
                = <<[rs |-> 0, b |-> CMD_DDRAM_ADDR + line_addr[dcall.y + 1] + dcall.x]>>

\* The data transfers (RS high) among the transfers of the last call.
DataTransfers(sent) == { i \in 1..Len(sent) : sent[i].rs = 1 }

\* The controller reads the bus in the width the driver is built for and
\* is between two bytes.
InStep(c) == c.if8 = MY_LCD_8_BIT /\ c.hi = -1

\* C21: an upload_character call that returns ESP_OK (glyph slot 0..7,
\* valid descriptor, no failing write) has made exactly 8 data transfers
\* for the 5x8 font and exactly 10 for the 5x10 font, its last transfer is
\* the command set-DDRAM-address 0, and a controller that reads the bus in
\* the built width has its address counter at DDRAM address 0 afterwards,
\* wherever it was before.
C21_UploadSendsGlyphAndHomes ==
    [][(dcall'.fn = "upload_character" /\ ncalls' # ncalls /\ ret' = ESP_OK)
         => \A sent \in {Sent(bus', MY_LCD_8_BIT)} :
                /\ dcall'.x \in 0..7
                /\ Cardinality(DataTransfers(sent))
                     = (IF lcd.font = HD44780_FONT_5X8 THEN 8 ELSE 10)
                /\ sent[Len(sent)] = [rs |-> 0, b |-> CMD_DDRAM_ADDR]
                /\ InStep(ctl) => (ctl'.ac = 0 /\ ~ctl'.cgram)]_vars

\* C21 witness: on a 4-bit build, after a gotoxy had moved the cursor, slot 7
\* of a 5x10 font was uploaded in twelve transfers and the controller is at
\* DDRAM address 0.
C21_Witness ==
    /\ dcall.fn = "upload_character"
    /\ dcall.x = 7
    /\ lcd.font = HD44780_FONT_5X10
    /\ ret = ESP_OK
    /\ ~MY_LCD_8_BIT
    /\ ncalls = 2
    /\ InStep(ctl)
    /\ Len(ctl.got) = 12
    /\ ctl.ac = 0

\* The values given to the byte sink during the last call, in order.
SinkWrites ==
    LET sink == SelectSeq(bus, LAMBDA ev : ev.k = "sink")
    IN  [i \in 1..Len(sink) |-> sink[i].v] \o <<>>

\* The GPIO writes of the last call, in order: line and level.
GpioWrites ==
    LET gpio == SelectSeq(bus, LAMBDA ev : ev.k = "gpio")
    IN  [i \in 1..Len(gpio) |-> <<gpio[i].pin, gpio[i].v>>] \o <<>>

\* The bytes clear, gotoxy and puts have to transmit, with their RS.
BytesOf(call) ==
    IF call.fn = "clear" THEN <<[rs |-> 0, b |-> CMD_CLEAR]>>
    ELSE IF call.fn = "gotoxy" THEN <<[rs |-> 0, b |-> GotoxyByte(call.x, call.y)]>>
    ELSE IF call.fn = "puts" THEN CharsSent(call.s, Len(call.s))
    ELSE <<>>

\* The latch image of the nibble n (0..15): data bits on D4..D7, RS, and
\* the backlight bit when the descriptor has a backlight line and its flag
\* is set.
NibbleImage(n, rs) ==
    n * 2 ^ pins.d4 + rs * 2 ^ pins.rs
      + (IF lcd.backlight /\ lcd.bl = pins.bl THEN 2 ^ pins.bl ELSE 0)

\* The four sink writes of a byte: high nibble strobed, then low nibble.
FourWrites(t) ==
    << NibbleImage(t.b \div 16, t.rs) + 2 ^ pins.e, NibbleImage(t.b \div 16, t.rs),
       NibbleImage(t.b % 16, t.rs) + 2 ^ pins.e, NibbleImage(t.b % 16, t.rs) >>

RECURSIVE Flatten(_)
Flatten(ss) == IF ss = <<>> THEN <<>> ELSE Head(ss) \o Flatten(Tail(ss))

\* The sink writes a sequence of bytes makes, four per byte.
NibbleWrites(bytes) == Flatten([i \in 1..Len(bytes) |-> FourWrites(bytes[i])])

\* The last call was clear, gotoxy or puts through a byte sink and
\* returned ESP_OK.
SentThroughSink ==
    /\ lcd.write_cb
    /\ dcall.fn \in {"clear", "gotoxy", "puts"}
    /\ ret = ESP_OK

\* C22 (as claimed): with a byte sink every byte is sent as high nibble
\* then low nibble, each nibble as two sink writes (the image with Enable
\* set, the same image with Enable cleared), each image carrying RS, the
\* backlight state and the 4 data bits: four sink writes per byte.
C22_SinkGetsFourWritesPerByte ==
    SentThroughSink => SinkWrites = NibbleWrites(BytesOf(dcall))

\* C22 (amended): that holds when the driver is built for the 4-bit bus,
\* and no GPIO is written then; built for the 8-bit bus the driver gives
\* the sink each byte whole, in one write, between GPIO writes of RS and of
\* Enable high before it and of Enable low after it.
C22_SinkWritesByBuild ==
    SentThroughSink =>
        IF MY_LCD_8_BIT
        THEN /\ SinkWrites = [i \in 1..Len(BytesOf(dcall)) |-> BytesOf(dcall)[i].b]
             /\ GpioWrites = Flatten([i \in 1..Len(BytesOf(dcall)) |->
                                 << <<"rs", BytesOf(dcall)[i].rs>>, <<"e", 1>>, <<"e", 0>> >>])
             /\ \A i \in 1..Len(bus) :
                   bus[i].k = "sink" => (bus[i - 1].pin = "e" /\ bus[i + 2].pin = "e")
        ELSE /\ SinkWrites = NibbleWrites(BytesOf(dcall))
             /\ GpioWrites = <<>>

\* C22 witness: on a 4-bit build the backlight was switched off and then
\* "1." was written through the sink in eight writes without the
\* backlight bit.
C22_Witness ==
    /\ ~MY_LCD_8_BIT
    /\ lcd.write_cb
    /\ lcd.bl = pins.bl
    /\ ~lcd.backlight
    /\ ncalls = 2
    /\ dcall = Puts(<<49, 46>>)
    /\ SinkWrites = <<53, 49, 21, 17, 37, 33, 229, 225>>

\* C23: switch_backlight on a descriptor without a backlight line returns
\* ESP_ERR_NOT_SUPPORTED, writes nothing and leaves the descriptor as it
\* was; with a backlight line it makes one write (GPIO or sink), and the
\* flag is the requested value when the write succeeded and is unchanged,
\* with the failure returned, when the write failed; nothing else of the
\* descriptor changes.
C23_BacklightFlagFollowsWrite ==
    [][(dcall'.fn = "switch_backlight" /\ ncalls' # ncalls)
         => IF lcd.bl = HD44780_NOT_USED
            THEN ret' = ESP_ERR_NOT_SUPPORTED /\ bus' = <<>> /\ lcd' = lcd
            ELSE /\ Len(bus') = 1
                 /\ bus'[1].k = (IF lcd.write_cb THEN "sink" ELSE "gpio")
                 /\ IF bus'[1].ok
                    THEN ret' = ESP_OK /\ lcd'.backlight = (dcall'.x = 1)
                    ELSE ret' = ESP_FAIL /\ lcd'.backlight = lcd.backlight
                 /\ lcd' = [lcd EXCEPT !.backlight = lcd'.backlight]]_vars

\* C23 witness: the backlight was switched off, then switching it on
\* failed in the sink and the flag is still off.
C23_Witness ==
    /\ ncalls = 2
    /\ dcall = SwitchBacklight(TRUE)
    /\ lcd.write_cb
    /\ lcd.bl = pins.bl
    /\ ret = ESP_FAIL
    /\ ~lcd.backlight
    /\ bus = <<[k |-> "sink", pin |-> "cb", v |-> 2 ^ pins.bl, ok |-> FALSE]>>

\* set_values returns in this step.
SetValuesReturns == ppc = "sv_release" /\ ppc' = "idle"

C27_ChangeDetectedOnValues ==
    [][SetValuesReturns
         => /\ last_args = <<>> => need_repaint
            /\ (last_args # <<>> /\ isfinite(watts) /\ isfinite(vlim))
                 => (need_repaint <=> (watts # last_args[1] \/ vlim # last_args[2]))]_vars

\* C27 witness: set_values(1.2341, 5.0) after set_values(1.234, 5.0) is
\* about to return true with the texts "1.234" and "5.0" staged once more.
C27_Witness ==
    /\ ppc = "sv_release"
    /\ need_repaint
    /\ watts = Fin(12341)
    /\ vlim = Fin(50000)
    /\ last_args = <<Fin(12340), Fin(50000)>>
    /\ watts_buffer = <<49, 46, 50, 51, 52>>
    /\ vlim_buffer = <<53, 46, 48>>

\* The strobes that transmit the bytes: one each on the 8-bit bus, high
\* nibble then low nibble on the 4-bit bus.
StrobesOf(bytes) ==
    IF MY_LCD_8_BIT THEN bytes
    ELSE Flatten([i \in 1..Len(bytes) |-> <<(bytes[i] \div 16) * 16, (bytes[i] % 16) * 16>>])

\* The order of init, fs being its function-set byte: three function-set
\* (8-bit) warm-up strobes, the width-switch nibble on the 4-bit bus, fs,
\* display control all off, clear, entry mode increment, display on.
InitOrder(fs) ==
    <<48, 48, 48>> \o (IF MY_LCD_8_BIT THEN <<>> ELSE <<32>>)
      \o StrobesOf(<<fs, 8, 1, 6, 12>>)

\* fs is a function-set command with the line, font and codepage bits of
\* the descriptor and the page (the data-length bit is left open).
IsFunctionSetFor(fs, d, page) ==
    /\ fs \div 64 = 0
    /\ Bit(fs, 5) = 1
    /\ Bit(fs, 3) = (IF d.lines > 1 THEN 1 ELSE 0)
    /\ Bit(fs, 2) = (IF d.font = HD44780_FONT_5X10 THEN 1 ELSE 0)
    /\ Bit(fs, 1) = page \div 2
    /\ Bit(fs, 0) = 0

\* The positions of the init-class delays among the events.
InitDelays(events) ==
    { i \in 1..Len(events) : events[i].k = "delay" /\ events[i].pin = "init" }

\* C25: an init that returned ESP_OK has strobed, in this order and with
\* nothing else strobed in between, all as commands: function-set (8-bit)
\* three times, each followed by an init-class delay before the next
\* strobe; on the 4-bit bus the width-switch nibble; the function-set
\* command with the descriptor's lines and font and the page; display
\* control all off; clear; entry mode with increment; display control
\* with display on, cursor and blink off.
C25_InitCommandOrder ==
    (dcall.fn = "init" /\ ret = ESP_OK)
        => \A strobes \in {Strobes(bus, MY_LCD_8_BIT)} :
              /\ \A i \in 1..Len(strobes) : strobes[i].rs = 0
              /\ \E fs \in 0..255 :
                    /\ IsFunctionSetFor(fs, lcd, dcall.x)
                    /\ [i \in 1..Len(strobes) |-> strobes[i].b] = InitOrder(fs)
              /\ Cardinality(InitDelays(bus)) = 3
              /\ { Len(Strobes(SubSeq(bus, 1, i), MY_LCD_8_BIT)) : i \in InitDelays(bus) }
                    = {1, 2, 3}
              /\ \A i \in InitDelays(bus) : IsWrite(bus[i - 1])

\* C25 witness: init of a four-line 5x10 display on codepage 1 through
\* GPIOs on the 4-bit bus has returned ESP_OK after fourteen strobes.
C25_Witness ==
    /\ dcall = InitCall(AN6866_PAGE_1)
    /\ ret = ESP_OK
    /\ ~MY_LCD_8_BIT
    /\ ~lcd.write_cb
    /\ lcd.lines = 4
    /\ lcd.font = HD44780_FONT_5X10
    /\ Len(Strobes(bus, MY_LCD_8_BIT)) = 14

\* The bit of a function-set command that selects the interface width:
\* DL, 0x10.
DataLengthBit(b) == Bit(b, 4)

\* C26: the function-set command that set_function sends, and that init
\* sends after its warm-up, has for every line count 1 to 4 its
\* data-length bit set when the driver is built for the 8-bit bus and
\* clear when it is built for the 4-bit bus.
C26_FunctionSetKeepsBuiltWidth ==
    \A sent \in {Sent(bus, MY_LCD_8_BIT)} :
        /\ (dcall.fn = "set_function" /\ lcd.lines \in 1..4)
             => DataLengthBit(sent[1].b) = (IF MY_LCD_8_BIT THEN 1 ELSE 0)
        /\ (dcall.fn = "init" /\ ret = ESP_OK)
             => DataLengthBit(sent[Len(sent) - 4].b) = (IF MY_LCD_8_BIT THEN 1 ELSE 0)

\* C28: have_to_clear goes from true to false only in the repaint task's
\* last statement of a redraw, with the repaint mutex held by the repaint
\* task, and only when no driver call of that redraw returned a failure.
C28_FlagClearedOnlyAfterSuccess ==
    [][(have_to_clear /\ ~have_to_clear')
         => /\ rpc = "clear_flag"
            /\ rpc' = "give"
            /\ repaint_mutex = "repaint"
            /\ ~cycle_failed]_vars

\* The calls of the redraw c that write a unit label.
LabelWrites(c) == { i \in 1..Len(c) : c[i] \in {Puts(txt_units), Puts(txt_units_vlim)} }

\* C29: a redraw cycle writes the unit labels if and only if it began
\* with clear: a cycle that began with gotoxy(0,0) writes no label, and a
\* finished cycle that began with clear has written both, whatever the
\* main task does meanwhile.
C29_CycleUniformlyFullOrPartial ==
    /\ (cyc # <<>> /\ cyc[1] # Clear) => LabelWrites(cyc) = {}
    /\ (cyc # <<>> /\ cyc[1] = Clear /\ CycleDone) => Cardinality(LabelWrites(cyc)) = 2

\* The repaint task is at a driver call of its redraw.
AtRedrawCall == rpc = "draw_first" \/ InRedrawSequence

\* C30: the repaint task goes for the lock only on having consumed a
\* notification, starts a redraw only on having acquired the lock, issues
\* driver calls only inside that redraw with the lock held, and leaves the
\* redraw only through its end, back to waiting; a wake by the timeout of
\* the notification wait (nothing pending) leads to the 10 ms delay and
\* back to waiting with no lock acquisition and no driver call.
C30_RepaintTaskCycle ==
    /\ [][(rpc' = "mutex_take" /\ rpc # "mutex_take")
            => (rpc = "notify_take" /\ notify_val > 0 /\ notify_val' = 0)]_vars
    /\ [][(rpc' = "draw_first" /\ rpc # "draw_first")
            => (rpc = "mutex_take" /\ repaint_mutex = "none" /\ repaint_mutex' = "repaint")]_vars
    /\ [][cyc' # cyc => (AtRedrawCall /\ repaint_mutex = "repaint" /\ drv'.by = "repaint")]_vars
    /\ [][(AtRedrawCall /\ rpc' # rpc) => (rpc' = "clear_flag" \/ InRedrawSequence')]_vars
    /\ [][(rpc \in {"clear_flag", "give"} /\ rpc' # rpc) => rpc' \in {"give", "notify_take"}]_vars
    /\ [][(rpc = "notify_take" /\ notify_val = 0 /\ rpc' # rpc)
            => (rpc' = "delay" /\ UNCHANGED <<repaint_mutex, drv, cyc>>)]_vars
    /\ [][(rpc = "delay" /\ rpc' # rpc)
            => (rpc' = "notify_take" /\ UNCHANGED <<repaint_mutex, drv, cyc>>)]_vars

\* C30 witness: the repaint task, woken by a notification and holding the
\* lock, has issued the first call of a redraw.
C30_Witness ==
    /\ rpc = "draw_watts"
    /\ xResult = pdTRUE
    /\ repaint_mutex = "repaint"
    /\ notify_val = 0
    /\ drv = [by |-> "repaint", call |-> GotoXY(0, 0)]
    /\ cyc = <<GotoXY(0, 0)>>

\* The positions in the events of the last call where E falls: the GPIO
\* write that lowers E, or on the 4-bit bus the sink image with E clear.
Edges ==
    { i \in 1..Len(bus) :
        \/ bus[i].k = "gpio" /\ bus[i].pin = "e" /\ bus[i].v = 0
        \/ ~MY_LCD_8_BIT /\ bus[i].k = "sink" /\ Bit(bus[i].v, pins.e) = 0 }

\* Which falling edge of the call the one at position i is.
EdgeNumber(i) == Cardinality({ j \in Edges : j <= i })

\* How many falling edges start init before whole bytes follow: the three
\* warm-up writes, and on the 4-bit bus the width-switch nibble.
LoneEdges == IF dcall.fn # "init" THEN 0 ELSE IF MY_LCD_8_BIT THEN 3 ELSE 4

\* The falling edge number k ends a write of the call: a warm-up write, the
\* width-switch nibble, or the second nibble of a byte (every edge on the
\* 8-bit bus).
EndsWrite(k) == k <= LoneEdges \/ MY_LCD_8_BIT \/ (k - LoneEdges) % 2 = 0

\* The delay class the code has to wait after the write that edge number k
\* ends, strobes being what the data pins carried at each edge.
ClassAfter(strobes, k) ==
    IF dcall.fn = "init" /\ k <= 3 THEN "init"
    ELSE IF k <= LoneEdges THEN "short"
    ELSE LET b == IF MY_LCD_8_BIT THEN strobes[k].b
                  ELSE strobes[k - 1].b + strobes[k].b \div 16
         IN  IF strobes[k].rs = 0 /\ b = CMD_CLEAR THEN "long" ELSE "short"

\* C31: in a driver call that returned ESP_OK, every write is followed,
\* before anything else reaches the bus and before the call returns, by
\* the delay of its class: the long delay after a clear command, the init
\* delay after each of the three warm-up writes of init, the short delay
\* after every other command or data byte.
C31_DelayFollowsEveryWrite ==
    (dcall.fn \in {"init", "set_function", "clear", "gotoxy", "puts"} /\ ret = ESP_OK)
        => \A strobes \in {Strobes(bus, MY_LCD_8_BIT)} :
              \A i \in Edges :
                  EndsWrite(EdgeNumber(i))
                      => /\ i < Len(bus)
                         /\ bus[i + 1].k = "delay"
                         /\ bus[i + 1].pin = ClassAfter(strobes, EdgeNumber(i))

\* C31 witness: a clear through the sink of a 4-bit build, made after
\* another call, has returned ESP_OK with the long delay as its last event.
C31_Witness ==
    /\ dcall = Clear
    /\ ncalls = 2
    /\ ret = ESP_OK
    /\ ~MY_LCD_8_BIT
    /\ lcd.write_cb
    /\ Cardinality(Edges) = 2
    /\ bus[Len(bus)] = Event(Delay("long"), TRUE)

\* What the call puts on the bus when it is the first call ever made with
\* the descriptor d: its events, computed from its arguments and d alone.
FirstCallBus(call, d) ==
    CASE call.fn = "init" -> Call(InitArgsOk(d), init(d, MY_LCD_8_BIT, call.x), 0).bus
      [] call.fn = "set_function" -> Call(TRUE, set_function(d, MY_LCD_8_BIT, call.x), 0).bus
      [] call.fn = "clear" -> Call(TRUE, clear(d, MY_LCD_8_BIT), 0).bus
      [] call.fn = "gotoxy" ->
            Call(GotoxyArgsOk(d, call.y), gotoxy(d, MY_LCD_8_BIT, call.x, call.y), 0).bus
      [] call.fn = "puts" -> Call(TRUE, puts(d, MY_LCD_8_BIT, call.s, 0), 0).bus

\* C32: whatever call was made before and whatever state the controller is
\* in, a driver call puts on the bus exactly what the same call puts there
\* as the first call with that descriptor; in particular a clear always
\* transfers the clear command, a gotoxy with a valid line always
\* transfers its one address command (also when the address counter is
\* already there), and puts transfers every character.
C32_BusWritesIndependentOfHistory ==
    [][ncalls' # ncalls
         => \A sent \in {Sent(bus', MY_LCD_8_BIT)} :
               /\ bus' = FirstCallBus(dcall', lcd)
               /\ dcall' = Clear => sent = <<[rs |-> 0, b |-> CMD_CLEAR]>>
               /\ (dcall'.fn = "gotoxy" /\ GotoxyArgsOk(lcd, dcall'.y))
                     => (Len(sent) = 1 /\ sent[1].rs = 0)
               /\ dcall'.fn = "puts" => sent = CharsSent(dcall'.s, Len(dcall'.s))]_vars

\* C32 witness: the second call in a row, a clear, has transferred the
\* clear command to a controller that reads the bus in the built width,
\* with the events of a first clear.
C32_Witness ==
    /\ ncalls = 2
    /\ dcall = Clear
    /\ InStep(ctl)
    /\ ctl.ac = 0
    /\ ctl.got = <<[rs |-> 0, b |-> CMD_CLEAR]>>
    /\ bus = FirstCallBus(Clear, lcd)

\* The addresses the rows of the glyph in slot num are written to, as the
\* address command of upload_character and the increments of the address
\* counter give them (as command bytes: 0x40 is CGRAM address 0).
GlyphRange(d, num) == { UploadAddressByte(d, num) + i : i \in 0..(GlyphBytes(d) - 1) }

\* C33: the first transfer of an upload_character call that returned ESP_OK
\* is a command whose byte is 0x40 + slot * bytes-per-glyph and lies in
\* 0x40..0x7F, the rows of the glyph stay inside the CGRAM address range,
\* and no other slot 0..7 of the same font shares an address with it.
C33_UploadAddressesCGRAM ==
    (dcall.fn = "upload_character" /\ ret = ESP_OK)
        => \A sent \in {Sent(bus, MY_LCD_8_BIT)} :
              /\ sent[1] = [rs |-> 0, b |-> CMD_CGRAM_ADDR + dcall.x * GlyphBytes(lcd)]
              /\ sent[1].b \in CMD_CGRAM_ADDR..(CMD_DDRAM_ADDR - 1)
              /\ Bit(sent[1].b, 6) = 1 /\ Bit(sent[1].b, 7) = 0
              /\ GlyphRange(lcd, dcall.x) \subseteq CMD_CGRAM_ADDR..(CMD_DDRAM_ADDR - 1)
              /\ \A other \in 0..7 :
                    other # dcall.x => GlyphRange(lcd, other) \cap GlyphRange(lcd, dcall.x) = {}

\* The characters visible in the value field of the line: columns 0 to
\* MY_MENU_COLUMN_OFFSET - 1.
ValueField(line) == SubSeq(screen.rows[line + 1], 1, MY_MENU_COLUMN_OFFSET)

\* The text followed by spaces up to the width of the value field.
Padded(text) ==
    [c \in 1..MY_MENU_COLUMN_OFFSET |-> IF c <= Len(text) THEN text[c] ELSE ChSpace]

\* C34: when the repaint task has finished the driver calls of a redraw,
\* full or partial, and still holds the lock, the buffers being those the
\* redraw wrote, the value field of line 0 shows watts_buffer followed by
\* spaces and the value field of line 1 shows vlim_buffer followed by
\* spaces.
C34_ValueFieldsShowBuffers ==
    (rpc = "give" /\ repaint_mutex = "repaint"
       /\ ShownWatts = watts_buffer /\ ShownVlim = vlim_buffer)
        => /\ ValueField(0) = Padded(watts_buffer)
           /\ ValueField(pos_vlim.y) = Padded(vlim_buffer)

\* The main task is inside an operation that takes the lock, and its take
\* succeeded.
MainHolds ==
    /\ ppc # "idle"
    /\ op \in {"set_values", "print_message", "print_message_f"}
    /\ p_xResult = pdTRUE

\* The repaint task is between its successful take and its give.
RepaintHolds == rpc \in {"draw_first", "clear_flag", "give"} \/ InRedrawSequence

\* The step gives the mutex.
Gives == repaint_mutex # "none" /\ repaint_mutex' = "none"

\* C35: the main task holds the mutex exactly while it is inside
\* set_values, print_message or print_message_f with a successful take,
\* and the repaint task exactly from its successful take to the give that
\* ends its cycle; the mutex is given only by its holder, as the last
\* statement of the operation or cycle that took it; and an operation
\* whose take timed out runs to its end without changing the holder.
C35_LockDiscipline ==
    /\ [][(repaint_mutex' = "main") = MainHolds']_vars
    /\ [][(repaint_mutex' = "repaint") = RepaintHolds']_vars
    /\ [][Gives => \/ /\ repaint_mutex = "main"
                      /\ ppc \in {"sv_release", "pm_give"} /\ ppc' = "idle"
                      /\ UNCHANGED rpc
                   \/ /\ repaint_mutex = "repaint"
                      /\ rpc = "give" /\ rpc' = "notify_take"
                      /\ UNCHANGED ppc]_vars
    /\ [][(ppc # "idle" /\ ppc' # ppc /\ p_xResult = pdFALSE) => UNCHANGED repaint_mutex]_vars
    /\ [][(rpc = "mutex_take" /\ rpc' = "notify_take") => UNCHANGED repaint_mutex]_vars

\* C35 witness: print_message, whose take timed out while the repaint
\* task was redrawing, is at its last statement and the repaint task still
\* holds the mutex.
C35_Witness ==
    /\ op = "print_message"
    /\ ppc = "pm_give"
    /\ p_xResult = pdFALSE
    /\ repaint_mutex = "repaint"
    /\ rpc = "draw_vlim"

\* C36: a gotoxy whose line is not below the descriptor's line count, or
\* not below 4, returns ESP_ERR_INVALID_ARG and nothing reaches the bus.
C36_GotoxyRejectsLine ==
    (dcall.fn = "gotoxy" /\ (dcall.y >= lcd.lines \/ dcall.y >= 4))
        => (ret = ESP_ERR_INVALID_ARG /\ bus = <<>>)

\* C36 witness: gotoxy to line 4 with a descriptor of 5 lines, made after
\* another call, was refused.
C36_Witness ==
    /\ dcall = GotoXY(MY_MENU_COLUMN_OFFSET, 4)
    /\ lcd.lines = 5
    /\ ncalls = 2
    /\ ret = ESP_ERR_INVALID_ARG
    /\ bus = <<>>

\* C37: the byte a gotoxy with a valid line sends has bit 7 set (it is a
\* set-DDRAM-address command) and its low seven bits are
\* line_addr[line] + col: the sum 0x80 + line_addr[line] + col fits in
\* eight bits.
C37_GotoxyByteKeepsCommandBit ==
    (dcall.fn = "gotoxy" /\ GotoxyArgsOk(lcd, dcall.y) /\ dcall.x \in 0..255)
        => \A sent \in {Sent(bus, MY_LCD_8_BIT)} :
              /\ CMD_DDRAM_ADDR + line_addr[dcall.y + 1] + dcall.x < 256
              /\ Bit(sent[1].b, 7) = 1
              /\ sent[1].b % CMD_DDRAM_ADDR = line_addr[dcall.y + 1] + dcall.x

\* The bits lo..hi of the image.
RECURSIVE Field(_, _, _)
Field(image, lo, hi) == IF lo > hi THEN 0 ELSE image[lo] + 2 * Field(image, lo + 1, hi)

\* C40: a set_vpwr call leaves bits 10 to 31 of the image as they were,
\* a set_vlim call leaves bits 0 to 15 and bits 24 to 31 as they were, and
\* a call with a value that is not finite leaves the whole image; a
\* set_vpwr with a finite value leaves its code in bits 0 to 9 (its two low
\* bits in bits 8 and 9), a set_vlim leaves its code in bits 16 to 23.
C40_DacChannelsShareImage ==
    [][dac_call' # dac_call
         => /\ dac_call'.fn = "set_vpwr"
                 => /\ Field(last_code', 10, 31) = Field(last_code, 10, 31)
                    /\ isfinite(dac_call'.volt)
                          => /\ Field(last_code', 0, 7) = VpwrCode(calibration, dac_call'.volt) \div 4
                             /\ Field(last_code', 8, 9) = VpwrCode(calibration, dac_call'.volt) % 4
            /\ dac_call'.fn = "set_vlim"
                 => /\ Field(last_code', 0, 15) = Field(last_code, 0, 15)
                    /\ Field(last_code', 24, 31) = Field(last_code, 24, 31)
                    /\ isfinite(dac_call'.volt)
                          => Field(last_code', 16, 23) = VlimCode(calibration, dac_call'.volt)
            /\ ~isfinite(dac_call'.volt) => last_code' = last_code]_vars

\* C40 witness: after set_vlim had put a code in bits 16 to 23, set_vpwr
\* of 1.234 V has put the code 309 in bits 0 to 9 and the limit code is
\* still there.
C40_Witness ==
    /\ dac_call = [fn |-> "set_vpwr", volt |-> Fin(12340)]
    /\ calibration.gain_vpwr = 250
    /\ Field(last_code, 0, 7) = 77
    /\ Field(last_code, 8, 9) = 1
    /\ Field(last_code, 16, 23) = 250
    /\ last_vlim = Fin(50000)

\* C38: a main-loop iteration that reads the button pressed with the output
\* on, for the eleventh iteration in a row or later, ends with is_on false,
\* the remote-enable coil cleared, the press counter at 0 and the power DAC
\* set to 0 V, whether or not remote control was enabled when it began.
C38_LongPressSwitchesOff ==
    [][(held_on' # held_on /\ held_on' > BUTTON_DEBOUNCE_DELAY)
         => /\ ~is_on'
            /\ ~coil_0'
            /\ btn_counter' = 0
            /\ dac_call' = [fn |-> "set_vpwr", volt |-> Fin(0)]
            /\ last_vpwr' = Fin(0)
            /\ Field(last_code', 0, 7) = VpwrCode(calibration, Fin(0)) \div 4
            /\ Field(last_code', 8, 9) = VpwrCode(calibration, Fin(0)) % 4]_vars

\* C38 witness: the eleventh pressed iteration in a row with the output on
\* has ended, the output having been on under remote control at 3.0 W (the
\* registers staged are the clamped setpoints) with the limit DAC set for
\* 5.0 V.
C38_Witness ==
    /\ held_on > BUTTON_DEBOUNCE_DELAY
    /\ ~is_on
    /\ ~coil_0
    /\ pwr_to_set = MY_PWR_MAX
    /\ last_vlim = vlim_to_dac_vlim(Fin(50000))
    /\ last_vpwr = Fin(0)

\* C39: while init_ok is false (start-up failed and no override_errors
\* command has been processed) the power DAC has not been set to a value
\* other than 0 V.
C39_NoPowerAfterFailedStart ==
    ~init_ok => /\ last_vpwr = Fin(0)
                /\ Field(last_code, 0, 9) = 0

====
